---- MODULE Spec2Model ----
(***************************************************************************)
(* Presence registry, session arbiter, typing tracker and message delivery *)
(* pipeline of the chat backend's Socket.IO controllers.                   *)
(*                                                                         *)
(* An event handler runs without preemption up to its next `await`; every  *)
(* action below is one such run.  Handlers that await are split at their   *)
(* awaits and keep their locals in a task record.                          *)
(***************************************************************************)
EXTENDS Integers, Sequences, FiniteSets, TLC

(***************************************************************************)
(* Bounds of the model.                                                    *)
(***************************************************************************)
MaxConn == 2

Conns == 1..MaxConn
UserIds == {1, 11}
GroupIds == {5}
\* the users typing indicators are addressed to
TypingTargets == {1}

\* longest file list a client submits, most full-size files in one list,
\* longest list with one irregular file
MaxFilesIn == 11
MaxFullFiles == 5
MaxBadLen == 5

\* limits of handleSendMessage
MAX_SIZE == 10 * 1024 * 1024
MAX_TOTAL_SIZE == 50 * 1024 * 1024
MAX_FILES == 10

\* primary keys the message store hands out, handlers of edit / delete in flight
MaxMsg == 3
MsgIds == 1..MaxMsg
OpIds == {1, 2}
TempIds == {7}

\* primary keys the group table hands out
MaxGroup == 2

\* most segments of a path handed to the file manager
MaxSegs == 3

\* a falsy / missing JavaScript value (undefined, null, 0, "")
Falsy == 0

(***************************************************************************)
(* Strings are sequences of one-character strings, so that template        *)
(* literals and startsWith are computed and not assumed.                    *)
(***************************************************************************)
Digits == <<"0", "1", "2", "3", "4", "5", "6", "7", "8", "9">>

RECURSIVE ToStr(_)
ToStr(n) == IF n < 10 THEN <<Digits[n + 1]>>
            ELSE ToStr(n \div 10) \o <<Digits[(n % 10) + 1]>>

StartsWith(s, p) == /\ Len(p) <= Len(s)
                    /\ SubSeq(s, 1, Len(p)) = p

\* `${fromUserId}-${toUserId}`
TypingKey(fromUserId, toUserId) == ToStr(fromUserId) \o <<"-">> \o ToStr(toUserId)

\* `${userId}-`
TypingPrefix(userId) == ToStr(userId) \o <<"-">>

\* String.prototype.trim on a sequence of characters
RECURSIVE TrimLeft(_)
TrimLeft(s) == IF s # <<>> /\ Head(s) = " " THEN TrimLeft(Tail(s)) ELSE s

RECURSIVE TrimRight(_)
TrimRight(s) == IF s # <<>> /\ s[Len(s)] = " " THEN TrimRight(SubSeq(s, 1, Len(s) - 1)) ELSE s

Trim(s) == TrimRight(TrimLeft(s))

Texts == {<<>>, <<" ", " ">>, <<"h", "i">>, <<" ", "h", "i", " ">>}

(***************************************************************************)
(* A base64 string is the bytes it decodes to (a content tag and a length) *)
(* and whether it is the canonical encoding of them: Buffer.from(s,        *)
(* "base64") skips characters outside the alphabet and missing padding,    *)
(* toString("base64") always yields the canonical string.                  *)
(***************************************************************************)
B64(tag, len, canon) == [bytes |-> tag, len |-> len, canon |-> canon]
EmptyString == B64(0, 0, TRUE)
BufferFrom(b64) == [bytes |-> IF b64.len = 0 THEN 0 ELSE b64.bytes, len |-> b64.len]
ToBase64(buf) == B64(buf.bytes, buf.len, TRUE)
Truthy(b64) == b64 # EmptyString

MkFile(kind, i) ==
    [name |-> IF kind = "noName" THEN "" ELSE "a.pdf",
     base64 |-> CASE kind = "small" -> B64(i % 2, 1, TRUE)
                  [] kind = "loose" -> B64(i % 2, 1, FALSE)
                  [] kind = "full" -> B64(i % 2, MAX_SIZE, TRUE)
                  [] kind = "over" -> B64(i % 2, MAX_SIZE + 1, TRUE)
                  [] kind = "noName" -> B64(i % 2, 1, TRUE)
                  [] kind = "noB64" -> EmptyString]

\* the file lists clients submit: n small files; k full-size files and
\* perhaps a small one; short lists with one irregular file
CountLists == {[i \in 1..n |-> MkFile("small", i)] : n \in 0..MaxFilesIn}
TotalLists == {[i \in 1..(k + s) |-> MkFile(IF i <= k THEN "full" ELSE "small", i)] :
                  k \in 1..MaxFullFiles, s \in 0..1}
BadLists == UNION {{[i \in 1..n |-> MkFile(IF i = p THEN kind ELSE "small", i)] :
                      p \in 1..n, kind \in {"over", "noName", "noB64", "loose", "full"}} :
                   n \in 1..MaxBadLen}
FileLists == CountLists \cup TotalLists \cup BadLists

(***************************************************************************)
(* Event targets and rooms.                                                *)
(***************************************************************************)
Sock(c) == [kind |-> "sock", rk |-> "", id |-> c]
RoomT(r) == [kind |-> "room", rk |-> r.rk, id |-> r.id]
AllT == [kind |-> "all", rk |-> "", id |-> 0]

UserRoom(u) == [rk |-> "user", id |-> u]
GroupRoom(g) == [rk |-> "group", id |-> g]

Ev(name, target, payload) == [ev |-> name, to |-> target, arg |-> payload]

NoEntry == [socketId |-> 0, status |-> "absent"]

\* console.warn in the catch around a getGroupMembers call
Warn == [ev |-> "console.warn", to |-> [kind |-> "console", rk |-> "", id |-> 0], arg |-> 0]

VARIABLES
    sockets,        \* transport state of every connection id
    joined,         \* Socket.IO rooms each connection is joined to
    onlineUsers,    \* userId -> { socketId, status }
    typingUsers,    \* set of `${fromUserId}-${toUserId}` keys
    userSocketMap,  \* socketId -> userId
    userRooms,      \* userId -> set of group rooms
    connTask,       \* handleUserConnection suspended on getGroupMembers
    out,            \* effects of the last handler run, in program order
    impl,           \* which controller file is mounted: "rooms" or "legacy"
    rows,           \* message store: id -> row
    nextId,         \* next primary key of the message store
    blobs,          \* blob store: messagesdocs/<id> -> files in that directory
    send,           \* the handleSendMessage in flight
    ops,            \* the handleEditMessage / handleDeleteMessage in flight
    config,         \* configurationProvider.configurationDetails: services bound or not
    groups,         \* groupsmaster: id -> row
    members,        \* groupuserslines: <<groupId, userId>> -> number of rows
    disk,           \* paths that fileManager created
    svc             \* the Service or fileManager call in flight

\* the service layer and the file manager; no socket handler writes these
libVars == <<config, groups, members, disk, svc>>

presVars == <<sockets, joined, onlineUsers, typingUsers, userSocketMap, userRooms, connTask,
              libVars>>

storeVars == <<impl, rows, nextId, blobs, send, ops, libVars>>

\* what the socket controller works on
chatVars == <<sockets, joined, onlineUsers, typingUsers, userSocketMap, userRooms, connTask, out,
              impl, rows, nextId, blobs, send, ops>>

vars == <<chatVars, libVars>>

\* the in-memory maps as one value, so that handlers can call each other
Reg == [onlineUsers |-> onlineUsers, typingUsers |-> typingUsers,
        userSocketMap |-> userSocketMap, userRooms |-> userRooms]

(***************************************************************************)
(* Helpers of the controller module.                                       *)
(***************************************************************************)
broadcastOnlineUsers(reg) ==
    LET ids == {u \in UserIds : reg.onlineUsers[u] # NoEntry}
    IN  <<Ev("online_users_list", AllT, ids), Ev("online_users", AllT, ids)>>

broadcastUserStatus(userId, status) ==
    <<Ev("user_status_changed", AllT, [userId |-> userId, status |-> status])>>

cleanupUser_NoDash(reg, userId, socketId) ==
    [reg EXCEPT !.onlineUsers[userId] = NoEntry,
                !.userSocketMap[socketId] = Falsy,
                !.userRooms[userId] = {},
                !.typingUsers = {k \in @ : ~StartsWith(k, ToStr(userId))}]

cleanupUser(reg, userId, socketId) ==
    [reg EXCEPT !.onlineUsers[userId] = NoEntry,
                !.userSocketMap[socketId] = Falsy,
                !.userRooms[userId] = {},
                !.typingUsers = {k \in @ : ~StartsWith(k, TypingPrefix(userId))}]

\* socket.on("disconnect"): the registry after it, and what it emits
onDisconnect(reg, c) ==
    LET userId == reg.userSocketMap[c]
    IN  IF userId # Falsy
        THEN LET r2 == cleanupUser(reg, userId, c)
             IN  [reg |-> r2,
                  out |-> broadcastUserStatus(userId, "offline") \o broadcastOnlineUsers(r2)]
        ELSE [reg |-> reg, out |-> <<>>]

(***************************************************************************)
(* Message rows (models/Message.js), directory entries and handler tasks.  *)
(***************************************************************************)
NoRow == [fromUserId |-> 0, toUserId |-> 0, groupId |-> 0, messageType |-> "", messageText |-> <<>>]

Undefined == [bytes |-> -1, len |-> -1, canon |-> FALSE]

NoData == [fromUserId |-> 0, toUserId |-> 0, groupId |-> 0, messageType |-> "",
           messageText |-> <<>>, files |-> <<>>, tempId |-> 0]

\* addDirs: the promise of the call `fileManager.addDirs(...)` that nothing awaits
IdleSend == [pc |-> "idle", c |-> 0, d |-> NoData, id |-> 0, i |-> 0, uploaded |-> <<>>,
             ci |-> 0, err |-> "", log |-> <<>>, addDirs |-> ""]

NoOpData == [messageId |-> 0, messageText |-> <<>>, fromUserId |-> 0, toUserId |-> 0, groupId |-> 0]

IdleOp == [kind |-> "", pc |-> "idle", c |-> 0, d |-> NoOpData, message |-> NoRow, log |-> <<>>]

\* rows of the group tables (models/Group.js, models/GroupMember.js)
GroupRowIds == 1..MaxGroup

NoGroup == [name |-> "", createdBy |-> 0]

NoMembers == [k \in GroupRowIds \X UserIds |-> 0]

\* a call of the service layer or of the file manager: its arguments, where it
\* stands, what it returned, the tables as it found them, how many membership
\* rows it inserted and whether a store call of it failed
IdleSvc == [op |-> "", pc |-> "idle", args |-> <<>>, groupId |-> 0, i |-> 0,
            toAdd |-> <<>>, toRemove |-> {}, base |-> <<>>, resolved |-> <<>>,
            status |-> "", message |-> "",
            before |-> [groups |-> <<>>, members |-> <<>>], inserts |-> 0, failed |-> FALSE]

\* Service.init has bound the services; no group exists, nothing was uploaded
InitLib ==
    /\ config = "ready"
    /\ groups = [g \in GroupRowIds |-> NoGroup]
    /\ members = NoMembers
    /\ disk = {}
    /\ svc = IdleSvc

EmptyStore ==
    /\ rows = [m \in MsgIds |-> NoRow]
    /\ nextId = 1
    /\ blobs = [m \in MsgIds |-> {}]
    /\ send = IdleSend
    /\ ops = [t \in OpIds |-> IdleOp]

(***************************************************************************)
(* Initial state: a freshly started process, no client connected.          *)
(***************************************************************************)
InitPresence ==
    /\ impl = "rooms"
    /\ InitLib
    /\ EmptyStore
    /\ sockets = [c \in Conns |-> "new"]
    /\ joined = [c \in Conns |-> {}]
    /\ onlineUsers = [u \in UserIds |-> NoEntry]
    /\ typingUsers = {}
    /\ userSocketMap = [c \in Conns |-> Falsy]
    /\ userRooms = [u \in UserIds |-> {}]
    /\ connTask = [c \in Conns |-> Falsy]
    /\ out = <<>>

SetReg(reg) ==
    /\ onlineUsers' = reg.onlineUsers
    /\ typingUsers' = reg.typingUsers
    /\ userSocketMap' = reg.userSocketMap
    /\ userRooms' = reg.userRooms

\* a client opens a transport session; ids are handed out in order and never reused
Open(c) ==
    /\ sockets[c] = "new"
    /\ \A d \in Conns : d < c => sockets[d] # "new"
    /\ sockets' = [sockets EXCEPT ![c] = "open"]
    /\ out' = <<>>
    /\ UNCHANGED <<joined, onlineUsers, typingUsers, userSocketMap, userRooms, connTask, storeVars>>

(***************************************************************************)
(* oldSocket.emit("force_disconnect"); oldSocket.disconnect(true)          *)
(* Socket.IO runs the old socket's "disconnect" listeners either inside    *)
(* disconnect(true) or later, when the transport has closed; both happen.  *)
(***************************************************************************)
EvictOld_NoTerminate(reg, old, inline) ==
    [reg |-> reg, state |-> "open", out |-> <<Ev("force_disconnect", Sock(old), 0)>>]

EvictOld(reg, old, inline) ==
    LET pre == <<Ev("force_disconnect", Sock(old), 0), Ev("disconnect(true)", Sock(old), 0)>>
    IN  IF inline
        THEN LET d == onDisconnect(reg, old)
             IN  [reg |-> d.reg, state |-> "closed", out |-> pre \o d.out]
        ELSE [reg |-> reg, state |-> "closing", out |-> pre]

\* socket.on("handleUserConnection"), up to `await getGroupMembers(userId)`
ConnectSync(c, userId) ==
    /\ sockets[c] = "open"
    /\ connTask[c] = Falsy
    /\ UNCHANGED storeVars
    /\ IF userId = Falsy
       THEN /\ out' = <<Ev("connection_error", Sock(c), 0)>>
            /\ UNCHANGED presVars
       ELSE LET existingUser == onlineUsers[userId]
                old == existingUser.socketId
                hasOld == /\ existingUser # NoEntry
                          /\ old # c
                          /\ sockets[old] \in {"open", "closing"}
            IN  \E inline \in BOOLEAN :
                  LET e == IF hasOld THEN EvictOld(Reg, old, inline)
                           ELSE [reg |-> Reg, state |-> "", out |-> <<>>]
                      r2 == [e.reg EXCEPT
                               !.onlineUsers[userId] = [socketId |-> c, status |-> "online"],
                               !.userSocketMap[c] = userId]
                  IN  /\ (~hasOld => inline)
                      /\ SetReg(r2)
                      /\ sockets' = IF hasOld THEN [sockets EXCEPT ![old] = e.state]
                                    ELSE sockets
                      /\ joined' = [d \in Conns |->
                                      IF d = c THEN joined[c] \cup {UserRoom(userId)}
                                      ELSE IF hasOld /\ d = old /\ e.state = "closed" THEN {}
                                      ELSE joined[d]]
                      /\ connTask' = [connTask EXCEPT ![c] = userId]
                      /\ out' = e.out \o <<Ev("onlineUsers.set", Sock(c), userId),
                                           Ev("userSocketMap.set", Sock(c), userId),
                                           Ev("join", RoomT(UserRoom(userId)), c)>>

\* what the group-membership collaborator can answer: a list of groups, or a failure
GroupLookupResults == {[ok |-> TRUE, groups |-> gs] : gs \in SUBSET GroupIds}
                         \cup {[ok |-> FALSE, groups |-> {}]}

\* handleUserConnection after `await getGroupMembers(userId)`
ConnectResume(c, res) ==
    /\ connTask[c] # Falsy
    /\ LET userId == connTask[c]
           rooms == {GroupRoom(g) : g \in res.groups}
           others == {u \in UserIds : onlineUsers[u] # NoEntry /\ u # userId}
       IN  /\ joined' = [joined EXCEPT ![c] = @ \cup rooms]
           /\ userRooms' = [userRooms EXCEPT ![userId] = @ \cup rooms]
           /\ out' = (IF res.ok THEN <<>> ELSE <<Warn>>)
                       \o broadcastOnlineUsers(Reg) \o broadcastUserStatus(userId, "online")
                       \o <<Ev("online_users_initial", Sock(c), others),
                            Ev("connection_established", Sock(c), userId)>>
    /\ connTask' = [connTask EXCEPT ![c] = Falsy]
    /\ UNCHANGED <<sockets, onlineUsers, typingUsers, userSocketMap, storeVars>>

\* socket.on("typing_start")
TypingStart(c, fromUserId, toUserId) ==
    /\ sockets[c] = "open"
    /\ IF fromUserId = Falsy \/ toUserId = Falsy
       THEN /\ out' = <<>>
            /\ UNCHANGED typingUsers
       ELSE /\ typingUsers' = typingUsers \cup {TypingKey(fromUserId, toUserId)}
            /\ out' = IF onlineUsers[toUserId] # NoEntry
                      THEN <<Ev("user_typing", Sock(onlineUsers[toUserId].socketId),
                                [userId |-> fromUserId, isTyping |-> TRUE])>>
                      ELSE <<>>
    /\ UNCHANGED <<sockets, joined, onlineUsers, userSocketMap, userRooms, connTask, storeVars>>

\* socket.on("typing_stop")
TypingStop(c, fromUserId, toUserId) ==
    /\ sockets[c] = "open"
    /\ IF fromUserId = Falsy \/ toUserId = Falsy
       THEN /\ out' = <<>>
            /\ UNCHANGED typingUsers
       ELSE /\ typingUsers' = typingUsers \ {TypingKey(fromUserId, toUserId)}
            /\ out' = IF onlineUsers[toUserId] # NoEntry
                      THEN <<Ev("user_typing", Sock(onlineUsers[toUserId].socketId),
                                [userId |-> fromUserId, isTyping |-> FALSE])>>
                      ELSE <<>>
    /\ UNCHANGED <<sockets, joined, onlineUsers, userSocketMap, userRooms, connTask, storeVars>>

\* socket.on("disconnect"): the client went away, or a forced close completed
Disconnect(c) ==
    /\ sockets[c] \in {"open", "closing"}
    /\ LET d == onDisconnect(Reg, c)
       IN  /\ SetReg(d.reg)
           /\ out' = d.out
    /\ sockets' = [sockets EXCEPT ![c] = "closed"]
    /\ joined' = [joined EXCEPT ![c] = {}]
    /\ UNCHANGED <<connTask, storeVars>>

\* socket.on("disconnect_other_sessions")
DisconnectOtherSessions(c, userId) ==
    /\ sockets[c] = "open"
    /\ UNCHANGED <<connTask, storeVars>>
    /\ LET userData == IF userId = Falsy THEN NoEntry ELSE onlineUsers[userId]
           old == userData.socketId
           hasOld == /\ userData # NoEntry
                     /\ old # c
                     /\ sockets[old] \in {"open", "closing"}
       IN  IF ~hasOld
           THEN /\ out' = <<>>
                /\ UNCHANGED <<sockets, joined, onlineUsers, typingUsers, userSocketMap, userRooms>>
           ELSE \E inline \in BOOLEAN :
                  LET e == EvictOld(Reg, old, inline)
                  IN  /\ SetReg(e.reg)
                      /\ sockets' = [sockets EXCEPT ![old] = e.state]
                      /\ joined' = [joined EXCEPT ![old] = IF e.state = "closed" THEN {} ELSE @]
                      /\ out' = e.out

\* socket.on("join_group")
JoinGroup(c, userId, groupId) ==
    /\ sockets[c] = "open"
    /\ IF userId = Falsy \/ groupId = Falsy
       THEN /\ out' = <<>>
            /\ UNCHANGED <<joined, userRooms>>
       ELSE LET roomName == GroupRoom(groupId)
            IN  /\ joined' = [joined EXCEPT ![c] = @ \cup {roomName}]
                /\ userRooms' = [userRooms EXCEPT ![userId] = @ \cup {roomName}]
                /\ out' = <<Ev("join", RoomT(roomName), c),
                            Ev("group_member_joined", RoomT(roomName),
                               [userId |-> userId, groupId |-> groupId])>>
    /\ UNCHANGED <<sockets, onlineUsers, typingUsers, userSocketMap, connTask, storeVars>>

\* socket.on("leave_group")
LeaveGroup_KeepsSocket(c, userId, groupId) ==
    /\ sockets[c] = "open"
    /\ IF userId = Falsy \/ groupId = Falsy
       THEN /\ out' = <<>>
            /\ UNCHANGED <<joined, userRooms>>
       ELSE LET roomName == GroupRoom(groupId)
            IN  /\ UNCHANGED joined
                /\ userRooms' = [userRooms EXCEPT ![userId] = @ \ {roomName}]
                /\ out' = <<>>
    /\ UNCHANGED <<sockets, onlineUsers, typingUsers, userSocketMap, connTask, storeVars>>

LeaveGroup(c, userId, groupId) ==
    /\ sockets[c] = "open"
    /\ IF userId = Falsy \/ groupId = Falsy
       THEN /\ out' = <<>>
            /\ UNCHANGED <<joined, userRooms>>
       ELSE LET roomName == GroupRoom(groupId)
            IN  /\ joined' = [joined EXCEPT ![c] = @ \ {roomName}]
                /\ userRooms' = [userRooms EXCEPT ![userId] = @ \ {roomName}]
                /\ out' = <<Ev("leave", RoomT(roomName), c)>>
    /\ UNCHANGED <<sockets, onlineUsers, typingUsers, userSocketMap, connTask, storeVars>>

(***************************************************************************)
(* Sessions: connect, eviction, group rooms, disconnect.                   *)
(***************************************************************************)
NextPresence ==
    \/ \E c \in Conns : Open(c)
    \/ \E c \in Conns, u \in UserIds \cup {Falsy} : ConnectSync(c, u)
    \/ \E c \in Conns, res \in GroupLookupResults : ConnectResume(c, res)
    \/ \E c \in Conns : Disconnect(c)

SpecPresence == InitPresence /\ [][NextPresence]_vars

\* sessions with the explicit eviction request
NextSessions ==
    \/ \E c \in Conns : Open(c)
    \/ \E c \in Conns, u \in UserIds : ConnectSync(c, u)
    \/ \E c \in Conns, res \in GroupLookupResults : ConnectResume(c, res)
    \/ \E c \in Conns, u \in UserIds \cup {Falsy} : DisconnectOtherSessions(c, u)
    \/ \E c \in Conns : Disconnect(c)

SpecSessions == InitPresence /\ [][NextSessions]_vars

\* the connections that send requests; a further one only opens its transport
RoomConns == {c \in Conns : c <= 2}

\* sessions whose connections join and leave group rooms on request
NextRooms ==
    \/ \E c \in Conns : Open(c)
    \/ \E c \in RoomConns, u \in UserIds : ConnectSync(c, u)
    \/ \E c \in RoomConns, res \in GroupLookupResults : ConnectResume(c, res)
    \/ \E c \in RoomConns, u \in UserIds \cup {Falsy}, g \in GroupIds \cup {Falsy} : JoinGroup(c, u, g)
    \/ \E c \in RoomConns, u \in UserIds \cup {Falsy}, g \in GroupIds \cup {Falsy} : LeaveGroup(c, u, g)
    \/ \E c \in RoomConns : Disconnect(c)

SpecRooms == InitPresence /\ [][NextRooms]_vars

(***************************************************************************)
(* Typing indicators over sessions of users who are in no group.           *)
(***************************************************************************)
NextTyping ==
    \/ \E c \in Conns : Open(c)
    \/ \E c \in Conns, u \in UserIds : ConnectSync(c, u)
    \/ \E c \in Conns : ConnectResume(c, [ok |-> TRUE, groups |-> {}])
    \/ \E c \in Conns, f \in UserIds \cup {Falsy}, t \in TypingTargets \cup {Falsy} : TypingStart(c, f, t)
    \/ \E c \in Conns, f \in UserIds \cup {Falsy}, t \in TypingTargets \cup {Falsy} : TypingStop(c, f, t)
    \/ \E c \in Conns : Disconnect(c)

SpecTyping == InitPresence /\ [][NextTyping]_vars

(***************************************************************************)
(* Heartbeats over sessions with typing entries and group rooms.           *)
(***************************************************************************)
\* userData.lastSeen = new Date(); userData.status = "online"
Refresh_Rebinds(userData, c) == [userData EXCEPT !.status = "online", !.socketId = c]

Refresh(userData, c) == [userData EXCEPT !.status = "online"]

\* socket.on("heartbeat")
Heartbeat(c, userId) ==
    /\ sockets[c] = "open"
    /\ IF userId # Falsy /\ onlineUsers[userId] # NoEntry
       THEN LET userData == Refresh(onlineUsers[userId], c)
            IN  /\ onlineUsers' = [onlineUsers EXCEPT ![userId] = userData]
                /\ out' = <<Ev("onlineUsers.set", Sock(userData.socketId), userId),
                            Ev("heartbeat_ack", Sock(c), "online")>>
       ELSE /\ out' = <<>>
            /\ UNCHANGED onlineUsers
    /\ UNCHANGED <<sockets, joined, typingUsers, userSocketMap, userRooms, connTask, storeVars>>

NextHeartbeat ==
    \/ \E c \in Conns : Open(c)
    \/ \E c \in Conns, u \in UserIds : ConnectSync(c, u)
    \/ \E c \in Conns : ConnectResume(c, [ok |-> TRUE, groups |-> GroupIds])
    \/ \E c \in Conns, t \in TypingTargets : TypingStart(c, 11, t)
    \/ \E c \in Conns, u \in UserIds \cup {Falsy} : Heartbeat(c, u)
    \/ \E c \in Conns : Disconnect(c)

SpecHeartbeat == InitPresence /\ [][NextHeartbeat]_vars

(***************************************************************************)
(* handleSendMessage                                                       *)
(***************************************************************************)
\* the checks before `await getUserInfo`; "" when the request passes
Validate_NoTargetCheck(d) ==
    IF d.messageType \notin {"doc", "text"} THEN "Invalid message type!"
    ELSE IF d.fromUserId = Falsy THEN "Either toUserId or groupId required."
    ELSE IF Trim(d.messageText) # <<>> /\ Len(d.files) > 0
         THEN "Cannot send text message and documents simultaneously."
    ELSE IF d.messageType = "text" /\ Len(d.files) > 0 THEN "Message type mismatch."
    ELSE IF d.messageType = "doc" /\ Len(d.files) = 0
         THEN "Document messages must include at least one file."
    ELSE IF \E i \in 1..Len(d.files) : ~Truthy(d.files[i].base64) \/ d.files[i].name = ""
         THEN "Invalid file structure."
    ELSE ""

Validate_NoFileCheck(d) ==
    IF d.messageType \notin {"doc", "text"} THEN "Invalid message type!"
    ELSE IF d.fromUserId = Falsy \/ (d.toUserId = Falsy /\ d.groupId = Falsy)
         THEN "Either toUserId or groupId required."
    ELSE IF Trim(d.messageText) # <<>> /\ Len(d.files) > 0
         THEN "Cannot send text message and documents simultaneously."
    ELSE IF d.messageType = "text" /\ Len(d.files) > 0 THEN "Message type mismatch."
    ELSE IF d.messageType = "doc" /\ Len(d.files) = 0
         THEN "Document messages must include at least one file."
    ELSE ""

Validate(d) ==
    IF d.messageType \notin {"doc", "text"} THEN "Invalid message type!"
    ELSE IF d.fromUserId = Falsy \/ (d.toUserId = Falsy /\ d.groupId = Falsy)
         THEN "Either toUserId or groupId required."
    ELSE IF Trim(d.messageText) # <<>> /\ Len(d.files) > 0
         THEN "Cannot send text message and documents simultaneously."
    ELSE IF d.messageType = "text" /\ Len(d.files) > 0 THEN "Message type mismatch."
    ELSE IF d.messageType = "doc" /\ Len(d.files) = 0
         THEN "Document messages must include at least one file."
    ELSE IF \E i \in 1..Len(d.files) : ~Truthy(d.files[i].base64) \/ d.files[i].name = ""
         THEN "Invalid file structure."
    ELSE ""

\* the row messageModel.create is called with
NewRow_KeepsBoth(d) ==
    [fromUserId |-> d.fromUserId,
     toUserId |-> d.toUserId,
     groupId |-> d.groupId,
     messageType |-> d.messageType,
     messageText |-> IF d.messageType = "text" THEN d.messageText ELSE <<>>]

NewRow(d) ==
    [fromUserId |-> d.fromUserId,
     toUserId |-> IF d.groupId # Falsy THEN Falsy ELSE d.toUserId,
     groupId |-> d.groupId,
     messageType |-> d.messageType,
     messageText |-> IF d.messageType = "text" THEN d.messageText ELSE <<>>]

RECURSIVE TotalSize(_)
TotalSize(files) ==
    IF files = <<>> THEN 0 ELSE BufferFrom(Head(files).base64).len + TotalSize(Tail(files))

MessageError_NoTempId(t, msg) == Ev("message_error", Sock(t.c), [tempId |-> Falsy, error |-> msg])

MessageError(t, msg) == Ev("message_error", Sock(t.c), [tempId |-> t.d.tempId, error |-> msg])

Log(t, evs) == [t EXCEPT !.log = @ \o evs]

\* `${fileName}_${Date.now()}_${fileIndex}${fileExtension}`: the clock may
\* not advance between two files, the index always does
UniqueName_NoIndex(name, fileIndex) == [name |-> name, idx |-> 0]

UniqueName(name, fileIndex) == [name |-> name, idx |-> fileIndex]

\* catch (fileError): delete what was uploaded, then the row.  The legacy file
\* calls fileManager.deleteFile, which does not exist: every call throws a
\* TypeError that the enclosing try/catch logs, so nothing is awaited or removed.
StartCleanup_AlwaysRemoves(t, msg) ==
    IF t.uploaded # <<>>
    THEN [t EXCEPT !.pc = "cleanup", !.ci = 1, !.err = msg]
    ELSE [t EXCEPT !.pc = "destroyC", !.err = msg]

StartCleanup(t, msg) ==
    IF impl = "rooms" /\ t.uploaded # <<>>
    THEN [t EXCEPT !.pc = "cleanup", !.ci = 1, !.err = msg]
    ELSE [t EXCEPT !.pc = "destroyC", !.err = msg]

\* one iteration of the upload loop, up to `await fileManager.addFiles`
BeginFile_NoSizeCheck(t) == [t EXCEPT !.pc = "write"]

BeginFile(t) ==
    IF BufferFrom(t.d.files[t.i].base64).len > MAX_SIZE
    THEN StartCleanup(t, "exceeds 10MB size limit")
    ELSE [t EXCEPT !.pc = "write"]

\* after messageModel.create: the count and total-size checks
AfterCreate_OffByOne(t) ==
    IF Len(t.d.files) >= MAX_FILES
    THEN Log([t EXCEPT !.pc = "destroyA"], <<MessageError(t, "Too many files.")>>)
    ELSE IF TotalSize(t.d.files) >= MAX_TOTAL_SIZE
    THEN Log([t EXCEPT !.pc = "destroyA"], <<MessageError(t, "Total files size exceeds limit.")>>)
    ELSE BeginFile([t EXCEPT !.i = 1, !.addDirs = "pending"])

AfterCreate(t) ==
    IF Len(t.d.files) > MAX_FILES
    THEN Log([t EXCEPT !.pc = "destroyA"], <<MessageError(t, "Too many files.")>>)
    ELSE IF TotalSize(t.d.files) > MAX_TOTAL_SIZE
    THEN Log([t EXCEPT !.pc = "destroyA"], <<MessageError(t, "Total files size exceeds limit.")>>)
    ELSE BeginFile([t EXCEPT !.i = 1, !.addDirs = "pending"])

notifyChatListUpdate_NoPresenceCheck(reg, userIds, groupId) ==
    LET on == SelectSeq(userIds, LAMBDA u : u \in UserIds)
    IN  [k \in 1..Len(on) |->
            Ev("chat_list_update",
               IF reg.onlineUsers[on[k]] # NoEntry THEN Sock(reg.onlineUsers[on[k]].socketId)
               ELSE RoomT(UserRoom(on[k])),
               [type |-> IF groupId # Falsy THEN "group" ELSE "user",
                id |-> IF groupId # Falsy THEN groupId ELSE on[k]])]

notifyChatListUpdate(reg, userIds, groupId) ==
    LET on == SelectSeq(userIds, LAMBDA u : u \in UserIds /\ reg.onlineUsers[u] # NoEntry)
    IN  [k \in 1..Len(on) |->
            Ev("chat_list_update", Sock(reg.onlineUsers[on[k]].socketId),
               [type |-> IF groupId # Falsy THEN "group" ELSE "user",
                id |-> IF groupId # Falsy THEN groupId ELSE on[k]])]

\* the lists of user ids the handlers pass: none, one or two ids, a repeat and
\* a missing id included
NotifyLists ==
    {<<>>, <<1>>, <<Falsy>>, <<1, 11>>, <<11, 1>>, <<1, 1>>, <<11, Falsy>>}

\* a handler calls notifyChatListUpdate(io, userIds, groupId)
Notify(userIds, groupId) ==
    /\ out' = notifyChatListUpdate(Reg, userIds, groupId)
    /\ UNCHANGED <<presVars, storeVars>>

\* sessions come and go while chat-list hints are sent
NextNotify ==
    \/ \E c \in Conns : Open(c)
    \/ \E c \in Conns, u \in UserIds : ConnectSync(c, u)
    \/ \E c \in Conns : ConnectResume(c, [ok |-> TRUE, groups |-> {}])
    \/ \E c \in Conns : Disconnect(c)
    \/ \E ids \in NotifyLists, g \in GroupIds \cup {Falsy} : Notify(ids, g)

SpecNotify == InitPresence /\ [][NextNotify]_vars

RecentChats == <<Ev("recent_chats_messages", AllT, 0)>>

\* fileData.map(...) over what getAllFiles returned
ResponseFiles_Empty(dir) == {}

ResponseFiles(dir) ==
    {[name |-> f.name, base64 |-> IF impl = "rooms" THEN ToBase64(f.data) ELSE Undefined] :
        f \in dir}

\* socket.emit("message_sent") and the delivery to the recipients, up to the
\* next await (rooms: getGroupMembers of a group send) or the end
Acknowledge(t, reg, responseFiles) ==
    LET d == t.d
        n == Len(d.files)
        msg == [id |-> t.id, files |-> responseFiles, fileCount |-> n]
        sent == <<Ev("message_sent", Sock(t.c), msg)>>
        recipient == IF d.toUserId \in UserIds THEN reg.onlineUsers[d.toUserId] ELSE NoEntry
        delivered(b) == Ev("message_delivered", Sock(t.c), [id |-> t.id, recipientOnline |-> b])
    IN  IF d.groupId # Falsy
        THEN IF impl = "rooms"
             THEN Log([t EXCEPT !.pc = "members"],
                      sent \o <<Ev("new_message", RoomT(GroupRoom(d.groupId)), msg)>>)
             ELSE Log([t EXCEPT !.pc = "done"],
                      sent \o <<Ev("group_message_<groupId>", AllT, msg)>>)
        ELSE IF recipient # NoEntry /\ recipient.status = "online"
        THEN Log([t EXCEPT !.pc = "done"],
                 sent \o <<Ev("new_message", Sock(recipient.socketId), msg), delivered(TRUE)>>
                      \o (IF impl = "rooms"
                          THEN notifyChatListUpdate(reg, <<d.fromUserId, d.toUserId>>, Falsy)
                                 \o RecentChats
                          ELSE <<>>))
        ELSE IF impl = "rooms"
        THEN Log([t EXCEPT !.pc = "done"],
                 sent \o <<Ev("new_message", RoomT(UserRoom(d.toUserId)), msg), delivered(FALSE)>>
                      \o notifyChatListUpdate(reg, <<d.fromUserId, d.toUserId>>, Falsy)
                      \o RecentChats)
        ELSE Log([t EXCEPT !.pc = "done"], sent \o <<delivered(FALSE)>>)

\* the events a step appended to the task's log
Emitted(old, new) == SubSeq(new.log, Len(old.log) + 1, Len(new.log))

SetSend(t) ==
    /\ send' = t
    /\ out' = Emitted(send, t)

SendData ==
    [fromUserId : {Falsy, 1}, toUserId : {Falsy, 11}, groupId : {Falsy} \cup GroupIds,
     messageType : {"text", "doc", "image"}, messageText : Texts \ {<<" ", "h", "i", " ">>},
     files : FileLists, tempId : TempIds]

\* requests arrive while no send is in flight
SendInputs == IF send.pc = "idle" THEN SendData ELSE {}

\* socket.on("handleSendMessage"), up to `await getUserInfo(fromUserId)`
SendStart(c, d) ==
    /\ sockets[c] = "open"
    /\ send.pc = "idle"
    /\ LET t == [IdleSend EXCEPT !.c = c, !.d = d]
           e == Validate(d)
       IN  IF e # ""
           THEN SetSend(Log([t EXCEPT !.pc = "done"], <<MessageError(t, e)>>))
           ELSE SetSend([t EXCEPT !.pc = "create"])
    /\ UNCHANGED <<presVars, impl, rows, nextId, blobs, ops>>

\* getUserInfo and messageModel.create have resolved
SendCreate_NeedsSender(ok) ==
    /\ send.pc = "create"
    /\ nextId \in MsgIds
    /\ sockets[send.c] = "open"
    /\ IF ~ok
       THEN /\ SetSend(Log([send EXCEPT !.pc = "done"],
                           <<MessageError(send, "Failed to send message. Please try again.")>>))
            /\ UNCHANGED <<rows, nextId>>
       ELSE /\ rows' = [rows EXCEPT ![nextId] = NewRow(send.d)]
            /\ nextId' = nextId + 1
            /\ LET t == [send EXCEPT !.id = nextId]
               IN  IF Len(t.d.files) > 0
                   THEN SetSend(AfterCreate(t))
                   ELSE SetSend(Acknowledge(t, Reg, {}))
    /\ UNCHANGED <<presVars, impl, blobs, ops>>

SendCreate(ok) ==
    /\ send.pc = "create"
    /\ nextId \in MsgIds
    /\ IF ~ok
       THEN /\ SetSend(Log([send EXCEPT !.pc = "done"],
                           <<MessageError(send, "Failed to send message. Please try again.")>>))
            /\ UNCHANGED <<rows, nextId>>
       ELSE /\ rows' = [rows EXCEPT ![nextId] = NewRow(send.d)]
            /\ nextId' = nextId + 1
            /\ LET t == [send EXCEPT !.id = nextId]
               IN  IF Len(t.d.files) > 0
                   THEN SetSend(AfterCreate(t))
                   ELSE SetSend(Acknowledge(t, Reg, {}))
    /\ UNCHANGED <<presVars, impl, blobs, ops>>

\* fileManager.addFiles has resolved or rejected
SendWrite_AcksEarly(ok) ==
    /\ send.pc = "write"
    /\ LET file == send.d.files[send.i]
           fileIndex == Len(send.uploaded)
           uniq == UniqueName(file.name, fileIndex)
           entry == [name |-> uniq, data |-> BufferFrom(file.base64)]
       IN  IF ~ok
           THEN /\ SetSend(StartCleanup(send, "Failed to upload file"))
                /\ UNCHANGED blobs
           ELSE /\ blobs' = [blobs EXCEPT ![send.id] = {f \in @ : f.name # uniq} \cup {entry}]
                /\ SetSend([send EXCEPT !.uploaded = Append(@, uniq), !.i = @ + 1, !.pc = "read"])
    /\ UNCHANGED <<presVars, impl, rows, nextId, ops>>

SendWrite(ok) ==
    /\ send.pc = "write"
    /\ LET file == send.d.files[send.i]
           fileIndex == Len(send.uploaded)
           uniq == UniqueName(file.name, fileIndex)
           entry == [name |-> uniq, data |-> BufferFrom(file.base64)]
       IN  IF ~ok
           THEN /\ SetSend(StartCleanup(send, "Failed to upload file"))
                /\ UNCHANGED blobs
           ELSE /\ blobs' = [blobs EXCEPT ![send.id] = {f \in @ : f.name # uniq} \cup {entry}]
                /\ LET t == [send EXCEPT !.uploaded = Append(@, uniq), !.i = @ + 1]
                   IN  IF t.i <= Len(t.d.files)
                       THEN SetSend(BeginFile(t))
                       ELSE SetSend([t EXCEPT !.pc = "read"])
    /\ UNCHANGED <<presVars, impl, rows, nextId, ops>>

\* the promise of fileManager.addDirs settles; no handler is attached to it, so
\* a rejection surfaces as the process's unhandledRejection
SendAddDirs(ok) ==
    /\ send.addDirs = "pending"
    /\ SetSend([send EXCEPT !.addDirs = IF ok THEN "resolved" ELSE "unhandledRejection"])
    /\ UNCHANGED <<presVars, impl, rows, nextId, blobs, ops>>

\* fileManager.removeFile(uploadedFile.path) has resolved or rejected (logged)
SendCleanup(ok) ==
    /\ send.pc = "cleanup"
    /\ blobs' = IF ok THEN [blobs EXCEPT ![send.id] = {f \in @ : f.name # send.uploaded[send.ci]}]
                ELSE blobs
    /\ IF send.ci < Len(send.uploaded)
       THEN SetSend([send EXCEPT !.ci = @ + 1])
       ELSE SetSend([send EXCEPT !.pc = "destroyC"])
    /\ UNCHANGED <<presVars, impl, rows, nextId, ops>>

\* one of the three `await message.destroy` of the attachment block
SendDestroy(ok) ==
    /\ send.pc \in {"destroyA", "destroyB", "destroyC"}
    /\ rows' = IF ok THEN [rows EXCEPT ![send.id] = NoRow] ELSE rows
    /\ CASE ok /\ send.pc = "destroyA" -> SetSend([send EXCEPT !.pc = "done"])
         [] ok /\ send.pc = "destroyB" ->
              SetSend(Log([send EXCEPT !.pc = "done"],
                          <<MessageError(send, "Failed to process files. Please try again.")>>))
         [] ok /\ send.pc = "destroyC" ->
              SetSend(Log([send EXCEPT !.pc = "done"], <<MessageError(send, send.err)>>))
         [] ~ok /\ send.pc \in {"destroyA", "destroyC"} -> SetSend([send EXCEPT !.pc = "destroyB"])
         [] ~ok /\ send.pc = "destroyB" ->
              SetSend(Log([send EXCEPT !.pc = "done"],
                          <<MessageError(send, "Failed to send message. Please try again.")>>))
    /\ UNCHANGED <<presVars, impl, nextId, blobs, ops>>

\* fileManager.getAllFiles(messageDir, "base64") has resolved or rejected (logged)
SendRead(ok) ==
    /\ send.pc = "read"
    /\ SetSend(Acknowledge(send, Reg, IF ok THEN ResponseFiles(blobs[send.id]) ELSE {}))
    /\ UNCHANGED <<presVars, impl, rows, nextId, blobs, ops>>

\* what the collaborator answers to getGroupMembers(groupId)
MemberLookupResults == {[ok |-> TRUE, members |-> m] : m \in {<<>>, <<1>>, <<1, 11>>}}
                          \cup {[ok |-> FALSE, members |-> <<>>]}

\* getGroupMembers(groupId) of a group send has resolved or rejected (logged)
SendMembers_FailsSend(res) ==
    /\ send.pc = "members"
    /\ SetSend(Log([send EXCEPT !.pc = "done"],
                   IF res.ok
                   THEN notifyChatListUpdate(Reg, res.members, send.d.groupId) \o RecentChats
                   ELSE <<Warn, MessageError(send, "Failed to send message. Please try again.")>>))
    /\ UNCHANGED <<presVars, impl, rows, nextId, blobs, ops>>

SendMembers(res) ==
    /\ send.pc = "members"
    /\ SetSend(Log([send EXCEPT !.pc = "done"],
                   (IF res.ok THEN notifyChatListUpdate(Reg, res.members, send.d.groupId)
                    ELSE <<Warn>>)
                     \o RecentChats))
    /\ UNCHANGED <<presVars, impl, rows, nextId, blobs, ops>>

(***************************************************************************)
(* A process that serves one send: the sender is registered on connection  *)
(* 1, the recipient on connection 2 or not at all.                         *)
(***************************************************************************)
Online(c) == [socketId |-> c, status |-> "online"]

InitSessions ==
    /\ sockets \in {[c \in Conns |-> IF c = 1 THEN "open" ELSE "new"],
                    [c \in Conns |-> IF c <= 2 THEN "open" ELSE "new"]}
    /\ onlineUsers = [u \in UserIds |-> IF u = 1 THEN Online(1)
                                        ELSE IF sockets[2] = "open" THEN Online(2) ELSE NoEntry]
    /\ userSocketMap = [c \in Conns |-> IF c = 1 THEN 1
                                        ELSE IF c = 2 /\ sockets[2] = "open" THEN 11 ELSE Falsy]
    /\ joined = [c \in Conns |-> IF c = 1 THEN {UserRoom(1), GroupRoom(5)}
                                 ELSE IF c = 2 /\ sockets[2] = "open" THEN {UserRoom(11)}
                                 ELSE {}]
    /\ userRooms = [u \in UserIds |-> IF u = 1 THEN {GroupRoom(5)} ELSE {}]
    /\ typingUsers = {}
    /\ connTask = [c \in Conns |-> Falsy]
    /\ out = <<>>

InitSend ==
    /\ InitLib
    /\ impl = "rooms"
    /\ EmptyStore
    /\ InitSessions

InitSendLegacy ==
    /\ InitLib
    /\ impl = "legacy"
    /\ EmptyStore
    /\ InitSessions

\* the stores answer; the blob store may fail to write or to list
NextSend ==
    \/ \E d \in SendInputs : SendStart(1, d)
    \/ \E ok \in BOOLEAN : SendCreate(ok)
    \/ \E ok \in BOOLEAN : SendWrite(ok)
    \/ SendAddDirs(TRUE)
    \/ SendCleanup(TRUE)
    \/ SendDestroy(TRUE)
    \/ \E ok \in BOOLEAN : SendRead(ok)
    \/ \E res \in MemberLookupResults : SendMembers(res)

SpecSend == InitSend /\ [][NextSend]_vars

\* both stores answer every call
NextSendOk ==
    \/ \E d \in SendInputs : SendStart(1, d)
    \/ SendCreate(TRUE)
    \/ SendWrite(TRUE)
    \/ SendAddDirs(TRUE)
    \/ SendCleanup(TRUE)
    \/ SendDestroy(TRUE)
    \/ SendRead(TRUE)
    \/ \E res \in MemberLookupResults : SendMembers(res)

SpecSendOk == InitSend /\ [][NextSendOk]_vars

\* the legacy controller file, with a blob store that fails only on writes
NextSendLegacy ==
    \/ \E d \in SendInputs : SendStart(1, d)
    \/ SendCreate(TRUE)
    \/ \E ok \in BOOLEAN : SendWrite(ok)
    \/ SendAddDirs(TRUE)
    \/ SendDestroy(TRUE)
    \/ SendRead(TRUE)

SpecSendLegacy == InitSendLegacy /\ [][NextSendLegacy]_vars

(***************************************************************************)
(* handleEditMessage and handleDeleteMessage                               *)
(***************************************************************************)
OpError(t, msg) ==
    Ev(IF t.kind = "edit" THEN "edit_message_error" ELSE "delete_message_error", Sock(t.c), msg)

SetOp(id, t) ==
    /\ ops' = [ops EXCEPT ![id] = t]
    /\ out' = Emitted(ops[id], t)

\* messageModel.findByPk
FindByPk(messageId) == IF messageId \in MsgIds THEN rows[messageId] ELSE NoRow

OpData ==
    [messageId : {Falsy} \cup MsgIds, messageText : Texts, fromUserId : {Falsy} \cup UserIds,
     toUserId : {Falsy, 11}, groupId : {Falsy} \cup GroupIds]

\* requests arrive while the handler slot is free
OpInputs(id) == IF ops[id].pc = "idle" THEN OpData ELSE {}

\* "Notify recipients" of an edit or a delete, up to the next await or the end
OpFanOut(t, reg, name, payload) ==
    LET d == t.d
        recipient == IF d.toUserId \in UserIds THEN reg.onlineUsers[d.toUserId] ELSE NoEntry
        own == <<Ev(name, Sock(t.c), payload)>>
    IN  IF d.groupId # Falsy
        THEN IF impl = "rooms"
             THEN Log([t EXCEPT !.pc = "members"],
                      own \o <<Ev(name, RoomT(GroupRoom(d.groupId)), payload)>>)
             ELSE Log([t EXCEPT !.pc = "done"],
                      own \o <<Ev("group_" \o name \o "_<groupId>", AllT, payload)>>)
        ELSE IF t.kind = "delete" /\ d.toUserId = Falsy
        THEN Log([t EXCEPT !.pc = "done"], own)
        ELSE Log([t EXCEPT !.pc = "done"],
                 own \o (IF recipient # NoEntry
                         THEN <<Ev(name, Sock(recipient.socketId), payload)>> ELSE <<>>)
                     \o (IF impl = "rooms"
                         THEN notifyChatListUpdate(reg, <<d.fromUserId, d.toUserId>>, Falsy)
                         ELSE <<>>))

\* socket.on("handleEditMessage"), up to `await messageModel.findByPk`
EditStart(id, c, d) ==
    /\ sockets[c] = "open"
    /\ ops[id].pc = "idle"
    /\ LET t == [IdleOp EXCEPT !.kind = "edit", !.c = c, !.d = d]
       IN  IF Trim(d.messageText) = <<>>
           THEN SetOp(id, Log([t EXCEPT !.pc = "done"],
                              <<OpError(t, "Message text cannot be empty")>>))
           ELSE SetOp(id, [t EXCEPT !.pc = "find"])
    /\ UNCHANGED <<presVars, impl, rows, nextId, blobs, send>>

\* the checks of handleEditMessage on the row findByPk returned
EditChecks_TypeFirst(message, d) ==
    IF message = NoRow THEN "Message not found"
    ELSE IF message.messageType # "text" THEN "Only text messages can be edited"
    ELSE IF message.fromUserId # d.fromUserId THEN "Unauthorized to edit this message"
    ELSE ""

EditChecks_NoOwner(message, d) ==
    IF message = NoRow THEN "Message not found"
    ELSE IF message.messageType # "text" THEN "Only text messages can be edited"
    ELSE ""

EditChecks(message, d) ==
    IF message = NoRow THEN "Message not found"
    ELSE IF message.fromUserId # d.fromUserId THEN "Unauthorized to edit this message"
    ELSE IF message.messageType # "text" THEN "Only text messages can be edited"
    ELSE ""

\* findByPk has resolved or rejected; up to `await message.save()`
EditFind(id, ok) ==
    /\ ops[id].kind = "edit"
    /\ ops[id].pc = "find"
    /\ LET t == ops[id]
           message == FindByPk(t.d.messageId)
           e == EditChecks(message, t.d)
       IN  IF ~ok THEN SetOp(id, Log([t EXCEPT !.pc = "done"], <<OpError(t, "store failure")>>))
           ELSE IF e # "" THEN SetOp(id, Log([t EXCEPT !.pc = "done"], <<OpError(t, e)>>))
           ELSE SetOp(id, [t EXCEPT !.pc = "save",
                                    !.message = [message EXCEPT !.messageText = Trim(t.d.messageText)]])
    /\ UNCHANGED <<presVars, impl, rows, nextId, blobs, send>>

\* message.save() (an UPDATE of the changed column by primary key) and
\* getUserInfo have resolved, or save has rejected
EditSave(id, ok) ==
    /\ ops[id].kind = "edit"
    /\ ops[id].pc = "save"
    /\ LET t == ops[id]
           mid == t.d.messageId
       IN  IF ~ok
           THEN /\ SetOp(id, Log([t EXCEPT !.pc = "done"], <<OpError(t, "store failure")>>))
                /\ UNCHANGED rows
           ELSE /\ rows' = IF rows[mid] # NoRow
                           THEN [rows EXCEPT ![mid].messageText = t.message.messageText]
                           ELSE rows
                /\ SetOp(id, OpFanOut(t, Reg, "message_edited",
                                      [id |-> mid, message |-> t.message]))
    /\ UNCHANGED <<presVars, impl, nextId, blobs, send>>

\* socket.on("handleDeleteMessage"), up to `await messageModel.findByPk`
DeleteStart(id, c, d) ==
    /\ sockets[c] = "open"
    /\ ops[id].pc = "idle"
    /\ LET t == [IdleOp EXCEPT !.kind = "delete", !.c = c, !.d = d]
       IN  IF d.messageId = Falsy \/ d.fromUserId = Falsy
           THEN SetOp(id, Log([t EXCEPT !.pc = "done"],
                              <<OpError(t, "messageId and fromUserId are required.")>>))
           ELSE SetOp(id, [t EXCEPT !.pc = "find"])
    /\ UNCHANGED <<presVars, impl, rows, nextId, blobs, send>>

\* the checks of handleDeleteMessage on the row findByPk returned
DeleteChecks_NoOwner(message, d) ==
    IF message = NoRow THEN "Message not found." ELSE ""

DeleteChecks(message, d) ==
    IF message = NoRow THEN "Message not found."
    ELSE IF message.fromUserId # d.fromUserId THEN "Unauthorized to delete this message."
    ELSE ""

\* findByPk has resolved or rejected; up to `await fileManager.getAllFiles`
DeleteFind(id, ok) ==
    /\ ops[id].kind = "delete"
    /\ ops[id].pc = "find"
    /\ LET t == ops[id]
           message == FindByPk(t.d.messageId)
           e == DeleteChecks(message, t.d)
       IN  IF ~ok THEN SetOp(id, Log([t EXCEPT !.pc = "done"], <<OpError(t, "store failure")>>))
           ELSE IF e # "" THEN SetOp(id, Log([t EXCEPT !.pc = "done"], <<OpError(t, e)>>))
           ELSE SetOp(id, [t EXCEPT !.pc = "list", !.message = message])
    /\ UNCHANGED <<presVars, impl, rows, nextId, blobs, send>>

\* getAllFiles(messageDir) has resolved or rejected (logged).  The legacy file
\* calls fileManager.deleteDir, which does not exist; the TypeError is logged.
DeleteList_Fatal(id, ok) ==
    /\ ops[id].kind = "delete"
    /\ ops[id].pc = "list"
    /\ LET t == ops[id]
       IN  IF ~ok
           THEN SetOp(id, Log([t EXCEPT !.pc = "done"], <<OpError(t, "store failure")>>))
           ELSE IF blobs[t.d.messageId] # {} /\ impl = "rooms"
           THEN SetOp(id, [t EXCEPT !.pc = "rmdir"])
           ELSE SetOp(id, [t EXCEPT !.pc = "destroy"])
    /\ UNCHANGED <<presVars, impl, rows, nextId, blobs, send>>

DeleteList(id, ok) ==
    /\ ops[id].kind = "delete"
    /\ ops[id].pc = "list"
    /\ LET t == ops[id]
       IN  IF ok /\ blobs[t.d.messageId] # {} /\ impl = "rooms"
           THEN SetOp(id, [t EXCEPT !.pc = "rmdir"])
           ELSE SetOp(id, [t EXCEPT !.pc = "destroy"])
    /\ UNCHANGED <<presVars, impl, rows, nextId, blobs, send>>

\* fileManager.removeDir(messageDir) has resolved or rejected (logged)
DeleteRmdir(id, ok) ==
    /\ ops[id].kind = "delete"
    /\ ops[id].pc = "rmdir"
    /\ blobs' = IF ok THEN [blobs EXCEPT ![ops[id].d.messageId] = {}] ELSE blobs
    /\ SetOp(id, [ops[id] EXCEPT !.pc = "destroy"])
    /\ UNCHANGED <<presVars, impl, rows, nextId, send>>

\* message.destroy has resolved or rejected
DeleteDestroy(id, ok) ==
    /\ ops[id].kind = "delete"
    /\ ops[id].pc = "destroy"
    /\ LET t == ops[id]
           mid == t.d.messageId
       IN  IF ~ok
           THEN /\ SetOp(id, Log([t EXCEPT !.pc = "done"], <<OpError(t, "store failure")>>))
                /\ UNCHANGED rows
           ELSE /\ rows' = [rows EXCEPT ![mid] = NoRow]
                /\ SetOp(id, OpFanOut(t, Reg, "message_deleted",
                                      [id |-> mid, message |-> NoRow]))
    /\ UNCHANGED <<presVars, impl, nextId, blobs, send>>

\* getGroupMembers(groupId) of an edit or delete has resolved or rejected (logged)
OpMembers(id, res) ==
    /\ ops[id].pc = "members"
    /\ SetOp(id, Log([ops[id] EXCEPT !.pc = "done"],
                     IF res.ok THEN notifyChatListUpdate(Reg, res.members, ops[id].d.groupId)
                     ELSE <<Warn>>))
    /\ UNCHANGED <<presVars, impl, rows, nextId, blobs, send>>

(***************************************************************************)
(* A process that has stored a text message of user 1 to user 11 and a     *)
(* document message of user 1 to group 5 with two attachments.             *)
(***************************************************************************)
TextRow == NewRow([NoData EXCEPT !.fromUserId = 1, !.toUserId = 11, !.messageType = "text",
                                 !.messageText = <<"o", "k">>])

DocFiles == <<MkFile("small", 1), MkFile("small", 2)>>

DocRow == NewRow([NoData EXCEPT !.fromUserId = 1, !.groupId = 5, !.messageType = "doc",
                                !.files = DocFiles])

DocDir == {[name |-> UniqueName(DocFiles[i].name, i - 1), data |-> BufferFrom(DocFiles[i].base64)] :
              i \in 1..Len(DocFiles)}

InitEdit ==
    /\ impl = "rooms"
    /\ InitLib
    /\ rows = [m \in MsgIds |-> IF m = 1 THEN TextRow ELSE IF m = 2 THEN DocRow ELSE NoRow]
    /\ nextId = 3
    /\ blobs = [m \in MsgIds |-> IF m = 2 THEN DocDir ELSE {}]
    /\ send = IdleSend
    /\ ops = [t \in OpIds |-> IdleOp]
    /\ InitSessions

EditConns == {c \in Conns : c <= 2}

NextEdit ==
    \/ \E c \in EditConns, d \in OpInputs(1) : EditStart(1, c, d)
    \/ \E ok \in BOOLEAN : EditFind(1, ok)
    \/ \E ok \in BOOLEAN : EditSave(1, ok)
    \/ \E c \in EditConns, d \in OpInputs(1) : DeleteStart(1, c, d)
    \/ \E ok \in BOOLEAN : DeleteFind(1, ok)
    \/ \E ok \in BOOLEAN : DeleteList(1, ok)
    \/ \E ok \in BOOLEAN : DeleteRmdir(1, ok)
    \/ \E ok \in BOOLEAN : DeleteDestroy(1, ok)
    \/ \E res \in MemberLookupResults : OpMembers(1, res)

SpecEdit == InitEdit /\ [][NextEdit]_vars

\* an edit and a delete by user 1, of the text message or of the document message
RaceData == {d \in OpData : d.messageId \in {1, 2} /\ d.fromUserId = 1
                             /\ d.messageText = <<"h", "i">>}

RaceInputs(id) == IF ops[id].pc = "idle" THEN RaceData ELSE {}

\* handleEditMessage and handleDeleteMessage in flight at the same time
NextRace ==
    \/ \E d \in RaceInputs(1) : EditStart(1, 1, d)
    \/ \E ok \in BOOLEAN : EditFind(1, ok)
    \/ \E ok \in BOOLEAN : EditSave(1, ok)
    \/ \E d \in RaceInputs(2) : DeleteStart(2, 1, d)
    \/ \E ok \in BOOLEAN : DeleteFind(2, ok)
    \/ \E ok \in BOOLEAN : DeleteList(2, ok)
    \/ \E ok \in BOOLEAN : DeleteRmdir(2, ok)
    \/ \E ok \in BOOLEAN : DeleteDestroy(2, ok)
    \/ \E id \in OpIds, res \in MemberLookupResults : OpMembers(id, res)

SpecRace == InitEdit /\ [][NextRace]_vars

(***************************************************************************)
(* A process that serves a registration, a send and then an edit or a      *)
(* delete: user 1 is registered on connection 1, connection 2 is open and  *)
(* registers as user 11 at some point, or never.                           *)
(***************************************************************************)
InitChat ==
    /\ impl = "rooms"
    /\ InitLib
    /\ EmptyStore
    /\ sockets = [c \in Conns |-> IF c <= 2 THEN "open" ELSE "new"]
    /\ onlineUsers = [u \in UserIds |-> IF u = 1 THEN Online(1) ELSE NoEntry]
    /\ userSocketMap = [c \in Conns |-> IF c = 1 THEN 1 ELSE Falsy]
    /\ joined = [c \in Conns |-> IF c = 1 THEN {UserRoom(1), GroupRoom(5)} ELSE {}]
    /\ userRooms = [u \in UserIds |-> IF u = 1 THEN {GroupRoom(5)} ELSE {}]
    /\ typingUsers = {}
    /\ connTask = [c \in Conns |-> Falsy]
    /\ out = <<>>

\* sends of user 1 with at most one file
ChatData == {d \in SendData : d.fromUserId = 1 /\ d.messageType # "image" /\ Len(d.files) <= 1}

\* the send arrives when the registration of connection 2 is not in flight
ChatInputs == IF send.pc = "idle" /\ connTask[2] = Falsy THEN ChatData ELSE {}

\* registrations arrive before the send
ChatUsers == IF send.pc = "idle" THEN {11, Falsy} ELSE {}

\* edits and deletes of the message that send created, once the send is over
ChatOpData == {d \in OpData : d.messageId = 1 /\ d.messageText \in {<<>>, <<"h", "i">>}}

ChatOpInputs ==
    IF send.pc = "done" /\ send.addDirs # "pending" /\ ops[1].pc = "idle" THEN ChatOpData ELSE {}

NextChat ==
    \/ \E u \in ChatUsers : ConnectSync(2, u)
    \/ \E res \in GroupLookupResults : ConnectResume(2, res)
    \/ \E c \in EditConns, d \in ChatInputs : SendStart(c, d)
    \/ \E ok \in BOOLEAN : SendCreate(ok)
    \/ \E ok \in BOOLEAN : SendWrite(ok)
    \/ SendAddDirs(TRUE)
    \/ SendDestroy(TRUE)
    \/ \E ok \in BOOLEAN : SendRead(ok)
    \/ \E res \in MemberLookupResults : SendMembers(res)
    \/ \E c \in EditConns, d \in ChatOpInputs : EditStart(1, c, d)
    \/ \E ok \in BOOLEAN : EditFind(1, ok)
    \/ \E ok \in BOOLEAN : EditSave(1, ok)
    \/ \E c \in EditConns, d \in ChatOpInputs : DeleteStart(1, c, d)
    \/ \E ok \in BOOLEAN : DeleteFind(1, ok)
    \/ \E ok \in BOOLEAN : DeleteList(1, ok)
    \/ \E ok \in BOOLEAN : DeleteRmdir(1, ok)
    \/ \E ok \in BOOLEAN : DeleteDestroy(1, ok)
    \/ \E res \in MemberLookupResults : OpMembers(1, res)

SpecChat == InitChat /\ [][NextChat]_vars

\* connections go away once a send has started; both stores answer every call
DropConns == IF send.pc = "idle" THEN {} ELSE EditConns

\* the steps a send takes when its collaborators answer
SendProgress ==
    \/ SendCreate(TRUE)
    \/ SendWrite(TRUE)
    \/ SendCleanup(TRUE)
    \/ SendDestroy(TRUE)
    \/ SendRead(TRUE)
    \/ \E res \in MemberLookupResults : SendMembers(res)

NextSendDrop ==
    \/ \E d \in SendInputs : SendStart(1, d)
    \/ SendProgress
    \/ SendAddDirs(TRUE)
    \/ \E c \in DropConns : Disconnect(c)

SpecSendDrop == InitSend /\ [][NextSendDrop]_vars

\* handleSendMessage with every collaborator free to fail, also during rollback
NextSendFaults ==
    \/ \E d \in SendInputs : SendStart(1, d)
    \/ \E ok \in BOOLEAN : SendCreate(ok)
    \/ \E ok \in BOOLEAN : SendWrite(ok)
    \/ \E ok \in BOOLEAN : SendAddDirs(ok)
    \/ \E ok \in BOOLEAN : SendCleanup(ok)
    \/ \E ok \in BOOLEAN : SendDestroy(ok)
    \/ \E ok \in BOOLEAN : SendRead(ok)
    \/ \E res \in MemberLookupResults : SendMembers(res)

SpecSendFaults == InitSend /\ [][NextSendFaults]_vars

(***************************************************************************)
(* The group services that Service.init binds (utils/helper.js).  One call *)
(* is in flight at a time; every await is a step, and every store call may *)
(* reject.                                                                 *)
(***************************************************************************)
GroupNames == {"", "A", "B"}

\* groupUsers: lists of user ids, repeats included
UserLists == {<<>>} \cup {<<u>> : u \in UserIds} \cup {<<u, v>> : u \in UserIds, v \in UserIds}

\* the value the call returns
Return(t, status, message) == [t EXCEPT !.pc = "done", !.status = status, !.message = message]

\* catch (error) { return { status: "error", message: error } }
Caught(t) == Return([t EXCEPT !.failed = TRUE], "error", "store failure")

Call(op, args) ==
    [IdleSvc EXCEPT !.op = op, !.args = args,
                    !.before = [groups |-> groups, members |-> members]]

\* the autoincrement key of the next groupsmaster row
FreeGroupIds == {g \in GroupRowIds : groups[g] = NoGroup}

NextGroupId == CHOOSE g \in FreeGroupIds : \A h \in FreeGroupIds : g <= h

Occurrences(list, u) == Cardinality({k \in 1..Len(list) : list[k] = u})

\* createGroup({ name, groupUsers, createdBy }), up to `await models.group.findOne`
CreateGroupStart(name, groupUsers, createdBy) ==
    /\ config = "ready"
    /\ svc.pc \in {"idle", "done"}
    /\ FreeGroupIds # {}
    /\ LET t == Call("createGroup",
                     [name |-> name, groupUsers |-> groupUsers, createdBy |-> createdBy])
       IN  svc' = IF name = "" THEN Return(t, "error", "Group name required")
                  ELSE [t EXCEPT !.pc = "findOne"]
    /\ UNCHANGED <<chatVars, config, groups, members, disk>>

\* findOne({ where: { name } }) has resolved or rejected
CreateGroupFind_NoExists(ok) ==
    /\ svc.op = "createGroup"
    /\ svc.pc = "findOne"
    /\ svc' = IF ~ok THEN Caught(svc) ELSE [svc EXCEPT !.pc = "create"]
    /\ UNCHANGED <<chatVars, config, groups, members, disk>>

CreateGroupFind(ok) ==
    /\ svc.op = "createGroup"
    /\ svc.pc = "findOne"
    /\ svc' = IF ~ok THEN Caught(svc)
              ELSE IF \E g \in GroupRowIds : groups[g] # NoGroup /\ groups[g].name = svc.args.name
              THEN Return(svc, "error", "Group name already exists")
              ELSE [svc EXCEPT !.pc = "create"]
    /\ UNCHANGED <<chatVars, config, groups, members, disk>>

\* models.group.create({ name, createdBy }) has resolved or rejected; createdBy
\* is a NOT NULL column
CreateGroupCreate(ok) ==
    /\ svc.op = "createGroup"
    /\ svc.pc = "create"
    /\ IF ~ok \/ svc.args.createdBy = Falsy
       THEN /\ svc' = Caught(svc)
            /\ UNCHANGED groups
       ELSE /\ groups' = [groups EXCEPT ![NextGroupId] =
                             [name |-> svc.args.name, createdBy |-> svc.args.createdBy]]
            /\ svc' = [svc EXCEPT !.pc = "member", !.groupId = NextGroupId, !.i = 0]
    /\ UNCHANGED <<chatVars, config, members, disk>>

\* GroupMember.create for the creator (i = 0) or for groupUsers[i] has resolved
\* or rejected
CreateGroupMember(ok) ==
    /\ svc.op = "createGroup"
    /\ svc.pc = "member"
    /\ LET userId == IF svc.i = 0 THEN svc.args.createdBy ELSE svc.args.groupUsers[svc.i]
           t == [svc EXCEPT !.inserts = @ + 1, !.i = @ + 1]
       IN  IF ~ok
           THEN /\ svc' = Caught(svc)
                /\ UNCHANGED members
           ELSE /\ members' = [members EXCEPT ![<<svc.groupId, userId>>] = @ + 1]
                /\ svc' = IF svc.i = Len(svc.args.groupUsers)
                          THEN Return(t, "success", "Group created")
                          ELSE t
    /\ UNCHANGED <<chatVars, config, groups, disk>>

\* updateGroup({ groupId, name, groupUsers }), up to `await models.group.findOne`;
\* name is a non-empty string or not given
UpdateGroupStart(groupId, name, groupUsers) ==
    /\ config = "ready"
    /\ svc.pc \in {"idle", "done"}
    /\ svc' = [Call("updateGroup",
                    [groupId |-> groupId, name |-> name, groupUsers |-> groupUsers])
                 EXCEPT !.pc = "findOne", !.groupId = groupId]
    /\ UNCHANGED <<chatVars, config, groups, members, disk>>

\* findOne({ where: { id: groupId } }) has resolved or rejected
UpdateGroupFind(ok) ==
    /\ svc.op = "updateGroup"
    /\ svc.pc = "findOne"
    /\ svc' = IF ~ok THEN Caught(svc)
              ELSE IF svc.groupId \notin GroupRowIds \/ groups[svc.groupId] = NoGroup
              THEN Return(svc, "error", "Group not found")
              ELSE IF svc.args.name # "" THEN [svc EXCEPT !.pc = "duplicate"]
              ELSE [svc EXCEPT !.pc = "update"]
    /\ UNCHANGED <<chatVars, config, groups, members, disk>>

\* findOne({ where: { name, id: { [Op.ne]: groupId } } }) has resolved or rejected
UpdateGroupDuplicate(ok) ==
    /\ svc.op = "updateGroup"
    /\ svc.pc = "duplicate"
    /\ svc' = IF ~ok THEN Caught(svc)
              ELSE IF \E g \in GroupRowIds \ {svc.groupId} :
                        groups[g] # NoGroup /\ groups[g].name = svc.args.name
              THEN Return(svc, "error", "Group name already exists")
              ELSE [svc EXCEPT !.pc = "update"]
    /\ UNCHANGED <<chatVars, config, groups, members, disk>>

\* models.group.update({ name }, ...) has resolved or rejected; a name that is
\* not given leaves the column as it is
UpdateGroupUpdate(ok) ==
    /\ svc.op = "updateGroup"
    /\ svc.pc = "update"
    /\ IF ~ok
       THEN /\ svc' = Caught(svc)
            /\ UNCHANGED groups
       ELSE /\ groups' = IF svc.args.name = "" THEN groups
                         ELSE [groups EXCEPT ![svc.groupId].name = svc.args.name]
            /\ svc' = [svc EXCEPT !.pc = "findAll"]
    /\ UNCHANGED <<chatVars, config, members, disk>>

\* where the call goes when the inserts are over
AfterAdd(t) ==
    IF t.toRemove # {} THEN [t EXCEPT !.pc = "remove"]
    ELSE Return(t, "success", "Group updated")

\* GroupMember.findAll({ where: { groupId } }) has resolved or rejected; toAdd and
\* toRemove are computed
UpdateGroupFindAll_KeepsAll(ok) ==
    /\ svc.op = "updateGroup"
    /\ svc.pc = "findAll"
    /\ LET existingIds == {u \in UserIds : members[<<svc.groupId, u>>] > 0}
           groupUsers == svc.args.groupUsers
           t == [svc EXCEPT !.toAdd = SelectSeq(groupUsers, LAMBDA u : u \notin existingIds),
                            !.toRemove = {},
                            !.i = 1]
       IN  svc' = IF ~ok THEN Caught(svc)
                  ELSE IF t.toAdd # <<>> THEN [t EXCEPT !.pc = "add"]
                  ELSE AfterAdd(t)
    /\ UNCHANGED <<chatVars, config, groups, members, disk>>

UpdateGroupFindAll(ok) ==
    /\ svc.op = "updateGroup"
    /\ svc.pc = "findAll"
    /\ LET existingIds == {u \in UserIds : members[<<svc.groupId, u>>] > 0}
           groupUsers == svc.args.groupUsers
           t == [svc EXCEPT !.toAdd = SelectSeq(groupUsers, LAMBDA u : u \notin existingIds),
                            !.toRemove = {u \in existingIds :
                                            \A k \in 1..Len(groupUsers) : groupUsers[k] # u},
                            !.i = 1]
       IN  svc' = IF ~ok THEN Caught(svc)
                  ELSE IF t.toAdd # <<>> THEN [t EXCEPT !.pc = "add"]
                  ELSE AfterAdd(t)
    /\ UNCHANGED <<chatVars, config, groups, members, disk>>

\* GroupMember.create({ groupId, userId: toAdd[i] }) has resolved or rejected
UpdateGroupAdd(ok) ==
    /\ svc.op = "updateGroup"
    /\ svc.pc = "add"
    /\ LET t == [svc EXCEPT !.inserts = @ + 1, !.i = @ + 1]
       IN  IF ~ok
           THEN /\ svc' = Caught(svc)
                /\ UNCHANGED members
           ELSE /\ members' = [members EXCEPT ![<<svc.groupId, svc.toAdd[svc.i]>>] = @ + 1]
                /\ svc' = IF svc.i = Len(svc.toAdd) THEN AfterAdd(t) ELSE t
    /\ UNCHANGED <<chatVars, config, groups, disk>>

\* GroupMember.destroy({ where: { groupId, userId: { [Op.in]: toRemove } } }) has
\* resolved or rejected
UpdateGroupRemove(ok) ==
    /\ svc.op = "updateGroup"
    /\ svc.pc = "remove"
    /\ IF ~ok
       THEN /\ svc' = Caught(svc)
            /\ UNCHANGED members
       ELSE /\ members' = [k \in GroupRowIds \X UserIds |->
                             IF k[1] = svc.groupId /\ k[2] \in svc.toRemove THEN 0
                             ELSE members[k]]
            /\ svc' = Return(svc, "success", "Group updated")
    /\ UNCHANGED <<chatVars, config, groups, disk>>

\* calls arrive when no call is in flight
GroupCalls == IF svc.pc \in {"idle", "done"} THEN GroupNames \X UserLists ELSE {}

NextGroups ==
    \/ \E a \in GroupCalls, u \in {1, Falsy} : CreateGroupStart(a[1], a[2], u)
    \/ \E ok \in BOOLEAN : CreateGroupFind(ok)
    \/ \E ok \in BOOLEAN : CreateGroupCreate(ok)
    \/ \E ok \in BOOLEAN : CreateGroupMember(ok)
    \/ \E a \in GroupCalls, g \in GroupRowIds : UpdateGroupStart(g, a[1], a[2])
    \/ \E ok \in BOOLEAN : UpdateGroupFind(ok)
    \/ \E ok \in BOOLEAN : UpdateGroupDuplicate(ok)
    \/ \E ok \in BOOLEAN : UpdateGroupUpdate(ok)
    \/ \E ok \in BOOLEAN : UpdateGroupFindAll(ok)
    \/ \E ok \in BOOLEAN : UpdateGroupAdd(ok)
    \/ \E ok \in BOOLEAN : UpdateGroupRemove(ok)

SpecGroups == InitPresence /\ [][NextGroups]_vars

(***************************************************************************)
(* Service.init (utils/helper.js): build the upload directories, merge and *)
(* validate the configuration, connect, validate the user table, sync and  *)
(* bind the services.  One init per Service object.                        *)
(***************************************************************************)
requiredDbFields == <<"host", "username", "password", "database", "dialect">>

requiredColumns == <<"id", "username", "email">>

Range(f) == {f[k] : k \in DOMAIN f}

\* dbconfig: which of the required fields the caller gave a truthy value
DbConfigs == [Range(requiredDbFields) -> BOOLEAN]

\* a column mapping is missing, an object whose column list is empty or
\* missing, or an object with a column list
ColumnSpecs == {"none", "empty", "listed"}

\* this.userModel.columns of a new Service
DefaultColumns == [col \in Range(requiredColumns) |-> "none"]

\* userModel: has says whether the caller's object has no `columns` key, a
\* null one, or a map
UserModels ==
    {[name |-> n, has |-> "given", columns |-> m] :
        n \in {"", "users"}, m \in [Range(requiredColumns) -> ColumnSpecs]}
      \cup {[name |-> n, has |-> h, columns |-> DefaultColumns] :
              n \in {"", "users"}, h \in {"absent", "null"}}

Msg(text, arg) == [text |-> text, arg |-> arg]

Valid == Msg("", "")

\* the first element of a list that satisfies a test
First(list, Test(_)) ==
    list[CHOOSE k \in 1..Len(list) : Test(list[k]) /\ \A j \in 1..(k - 1) : ~Test(list[j])]

\* validateConfig on { ...this.dbconfig, ...dbconfig } and
\* { ...this.userModel, ...userModel }: the message of the Error it throws
validateConfig(dbconfig, userModel) ==
    LET noField(f) == ~dbconfig[f]
        badColumn(col) == \/ userModel.columns[col] = "none"
                          \/ col = "id" /\ userModel.columns[col] = "empty"
    IN  IF \E f \in Range(requiredDbFields) : noField(f)
        THEN Msg("Database Config Missing: '<field>'", First(requiredDbFields, noField))
        ELSE IF userModel.name = "" THEN Msg("UserModel Missing: '<field>'", "name")
        ELSE IF userModel.has = "null" THEN Msg("UserModel Missing: '<field>'", "columns")
        ELSE IF \E col \in Range(requiredColumns) : badColumn(col)
        THEN LET col == First(requiredColumns, badColumn)
             IN  IF userModel.columns[col] = "none"
                 THEN Msg("UserModel Missing column: '<col>'", col)
                 ELSE Msg("UserModel 'id' must contain column list", col)
        ELSE Valid

\* catch (error) { console.error(...); throw error } of init, for a collaborator
Rejected(t) == Return([t EXCEPT !.failed = TRUE], "rejected", Msg("collaborator failure", ""))

\* service.init({ dbconfig, userModel }), up to `await fileManager.buildStorageEnv()`
InitStart(dbconfig, userModel) ==
    /\ config = "unset"
    /\ svc.pc = "idle"
    /\ svc' = [Call("init", [dbconfig |-> dbconfig, userModel |-> userModel])
                 EXCEPT !.pc = "storage"]
    /\ UNCHANGED <<chatVars, config, groups, members, disk>>

\* buildStorageEnv has resolved or rejected; validateConfig; dbHandleConnection;
\* up to `await this.dbValidation()`
InitStorage(ok) ==
    /\ svc.op = "init"
    /\ svc.pc = "storage"
    /\ LET e == validateConfig(svc.args.dbconfig, svc.args.userModel)
       IN  svc' = IF ~ok THEN Rejected(svc)
                  ELSE IF e # Valid THEN Return(svc, "rejected", e)
                  ELSE [svc EXCEPT !.pc = "dbValidation"]
    /\ UNCHANGED <<chatVars, config, groups, members, disk>>

\* dbValidation has resolved or rejected; up to `await syncDatabase()`
InitDbValidation(ok) ==
    /\ svc.op = "init"
    /\ svc.pc = "dbValidation"
    /\ svc' = IF ~ok THEN Rejected(svc) ELSE [svc EXCEPT !.pc = "sync"]
    /\ UNCHANGED <<chatVars, config, groups, members, disk>>

\* syncDatabase has resolved or rejected; configurationProvider.setConfig
InitSync(ok) ==
    /\ svc.op = "init"
    /\ svc.pc = "sync"
    /\ IF ~ok
       THEN /\ svc' = Rejected(svc)
            /\ UNCHANGED config
       ELSE /\ svc' = Return(svc, "resolved", Valid)
            /\ config' = "ready"
    /\ UNCHANGED <<chatVars, groups, members, disk>>

\* a process before Service.init: nothing is bound, no client is connected
InitBoot ==
    /\ impl = "rooms"
    /\ EmptyStore
    /\ sockets = [c \in Conns |-> "new"]
    /\ joined = [c \in Conns |-> {}]
    /\ onlineUsers = [u \in UserIds |-> NoEntry]
    /\ typingUsers = {}
    /\ userSocketMap = [c \in Conns |-> Falsy]
    /\ userRooms = [u \in UserIds |-> {}]
    /\ connTask = [c \in Conns |-> Falsy]
    /\ out = <<>>
    /\ config = "unset"
    /\ groups = [g \in GroupRowIds |-> NoGroup]
    /\ members = NoMembers
    /\ disk = {}
    /\ svc = IdleSvc

NextInit ==
    \/ \E dbconfig \in DbConfigs, userModel \in UserModels : InitStart(dbconfig, userModel)
    \/ \E ok \in BOOLEAN : InitStorage(ok)
    \/ \E ok \in BOOLEAN : InitDbValidation(ok)
    \/ \E ok \in BOOLEAN : InitSync(ok)

SpecInit == InitBoot /\ [][NextInit]_vars

(***************************************************************************)
(* The file manager (utils/filemanager.js).  A path is a string; here it   *)
(* is given by its segments, each a string, and by whether it starts with  *)
(* the separator.  The process runs in /w, "p" stands for public, "u" for  *)
(* uploads, "u2" for a directory next to it, "a" for any other name.       *)
(***************************************************************************)
Sep == <<"/">>

DotDot == <<".", ".">>

Segments == {DotDot, <<"w">>, <<"p">>, <<"u">>, <<"u", "2">>, <<"a">>}

SegLists(n) == UNION {[1..k -> Segments] : k \in 0..n}

Paths == [abs : BOOLEAN, segs : SegLists(MaxSegs)]

EmptyPath == [abs |-> FALSE, segs |-> <<>>]

\* process.cwd()
Cwd == <<<<"w">>>>

\* the segments of an absolute path after "." and ".." are resolved
RECURSIVE Normalize(_, _)
Normalize(stack, rest) ==
    IF rest = <<>> THEN stack
    ELSE IF Head(rest) = DotDot
    THEN Normalize(IF stack = <<>> THEN <<>> ELSE SubSeq(stack, 1, Len(stack) - 1), Tail(rest))
    ELSE Normalize(Append(stack, Head(rest)), Tail(rest))

\* path.resolve(from, to), from being absolute
pathResolve(from, to) == IF to.abs THEN Normalize(<<>>, to.segs) ELSE Normalize(from, to.segs)

\* path.join(base, d): d is appended whether or not it starts with the separator
pathJoin(base, d) == Normalize(base, d.segs)

\* the string of an absolute path
RECURSIVE Render(_)
Render(segs) ==
    IF segs = <<>> THEN Sep
    ELSE IF Len(segs) = 1 THEN Sep \o segs[1]
    ELSE Render(SubSeq(segs, 1, Len(segs) - 1)) \o Sep \o segs[Len(segs)]

EndsWithSep(str) == str[Len(str)] = "/"

\* fileLocation: path.resolve(process.cwd(), "./public/uploads")
fileLocation == pathResolve(Cwd, [abs |-> FALSE, segs |-> <<<<"p">>, <<"u">>>>])

\* _resolveAndValidate(targetPath): the resolved path, or the Error it throws
resolveAndValidate(targetPath) ==
    LET resolved == pathResolve(fileLocation, targetPath)
        base == Render(fileLocation)
        normalizedBase == IF EndsWithSep(base) THEN base ELSE base \o Sep
        normalizedResolved == IF EndsWithSep(Render(resolved)) THEN Render(resolved)
                              ELSE Render(resolved) \o Sep
    IN  IF ~StartsWith(normalizedResolved, normalizedBase)
        THEN [ok |-> FALSE, path |-> <<>>]
        ELSE [ok |-> TRUE, path |-> resolved]

\* path.dirname of an absolute path
Dirname(segs) == IF segs = <<>> THEN <<>> ELSE SubSeq(segs, 1, Len(segs) - 1)

\* the directories that exist before any upload: the upload root and what is above it
Exists(segs) == Len(segs) <= Len(fileLocation) /\ SubSeq(fileLocation, 1, Len(segs)) = segs

Thrown(t, message) == Return(t, "rejected", message)

\* addDirs: the check of dirs[i], up to `await fs.mkdir(resolved)`
CheckDir(t) ==
    LET resolved == pathJoin(t.base, t.args.dirs[t.i])
    IN  IF ~StartsWith(Render(resolved), Render(t.base))
        THEN Thrown(t, "Invalid subdirectory path")
        ELSE [t EXCEPT !.pc = "mkdir", !.resolved = resolved]

\* fileManager.addDirs({ uploadpath, dirs }), up to the first `await fs.mkdir`
AddDirsStart(uploadpath, dirs) ==
    /\ svc.pc = "idle"
    /\ LET t == Call("addDirs", [uploadpath |-> uploadpath, dirs |-> dirs])
           v == resolveAndValidate(uploadpath)
       IN  svc' = IF ~v.ok THEN Thrown(t, "Invalid path - outside of upload directory")
                  ELSE IF dirs = <<>> THEN Return(t, "resolved", "")
                  ELSE CheckDir([t EXCEPT !.base = v.path, !.i = 1])
    /\ UNCHANGED <<chatVars, config, groups, members, disk>>

\* fs.mkdir(resolved, { recursive: true }) has resolved or rejected
AddDirsMkdir(ok) ==
    /\ svc.op = "addDirs"
    /\ svc.pc = "mkdir"
    /\ IF ~ok
       THEN /\ svc' = Thrown([svc EXCEPT !.failed = TRUE], "mkdir failed")
            /\ UNCHANGED disk
       ELSE /\ disk' = IF Exists(svc.resolved) THEN disk ELSE disk \cup {svc.resolved}
            /\ svc' = IF svc.i = Len(svc.args.dirs) THEN Return(svc, "resolved", "")
                      ELSE CheckDir([svc EXCEPT !.i = @ + 1])
    /\ UNCHANGED <<chatVars, config, groups, members>>

\* fileManager.addFiles({ data, location }), up to `await fs.mkdir(parent)`
AddFilesStart(location) ==
    /\ svc.pc = "idle"
    /\ LET t == Call("addFiles", [location |-> location])
           v == resolveAndValidate(location)
           alt == pathResolve(Cwd, location)
       IN  svc' = IF location = EmptyPath THEN Thrown(t, "Location is required")
                  ELSE IF v.ok THEN [t EXCEPT !.pc = "mkdir", !.resolved = v.path]
                  ELSE IF ~StartsWith(Render(alt), Render(fileLocation))
                  THEN Thrown(t, "Invalid path - outside of upload directory")
                  ELSE [t EXCEPT !.pc = "mkdir", !.resolved = alt]
    /\ UNCHANGED <<chatVars, config, groups, members, disk>>

\* fs.mkdir(parent, { recursive: true }) has resolved or rejected
AddFilesMkdir(ok) ==
    /\ svc.op = "addFiles"
    /\ svc.pc = "mkdir"
    /\ LET parent == Dirname(svc.resolved)
       IN  IF ~ok
           THEN /\ svc' = Thrown([svc EXCEPT !.failed = TRUE], "mkdir failed")
                /\ UNCHANGED disk
           ELSE /\ disk' = IF Exists(parent) THEN disk ELSE disk \cup {parent}
                /\ svc' = [svc EXCEPT !.pc = "write"]
    /\ UNCHANGED <<chatVars, config, groups, members>>

\* fs.writeFile(resolved, data) has resolved or rejected; it rejects on a directory
AddFilesWrite(ok) ==
    /\ svc.op = "addFiles"
    /\ svc.pc = "write"
    /\ IF ~ok \/ Exists(svc.resolved)
       THEN /\ svc' = Thrown([svc EXCEPT !.failed = TRUE], "writeFile failed")
            /\ UNCHANGED disk
       ELSE /\ disk' = disk \cup {svc.resolved}
            /\ svc' = Return(svc, "resolved", "")
    /\ UNCHANGED <<chatVars, config, groups, members>>

\* upload paths of at most one segment, directory names of at most two
UploadPaths == {p \in Paths : Len(p.segs) <= 1}

DirNames == {p \in Paths : ~p.abs /\ Len(p.segs) \in 1..2}

DirLists == {<<>>} \cup {<<d>> : d \in DirNames}
              \cup {<<d, e>> : d \in {q \in DirNames : Len(q.segs) = 1}, e \in DirNames}

NextFiles ==
    \/ \E uploadpath \in UploadPaths, dirs \in DirLists : AddDirsStart(uploadpath, dirs)
    \/ \E ok \in BOOLEAN : AddDirsMkdir(ok)
    \/ \E location \in Paths : AddFilesStart(location)
    \/ \E ok \in BOOLEAN : AddFilesMkdir(ok)
    \/ \E ok \in BOOLEAN : AddFilesWrite(ok)

SpecFiles == InitPresence /\ [][NextFiles]_vars

(***************************************************************************)
(* Properties                                                              *)
(***************************************************************************)
HasEv(log, name) == \E i \in 1..Len(log) : log[i].ev = name

EvTo(log, name, target) == \E i \in 1..Len(log) : log[i].ev = name /\ log[i].to = target

\* C1: when handleUserConnection{userId: U} runs on connection B while the
\* registry binds U to another, open connection A, the run up to its first
\* await emits force_disconnect to A, then terminates A, then installs U -> B,
\* and leaves U bound to B only; connection_established is emitted to B only
\* by the continuation of such a run, never by the run itself.
C1_EvictBeforeInstall ==
    [][/\ \A b \in Conns, u \in UserIds :
            LET a == onlineUsers[u].socketId
            IN  (/\ connTask[b] = Falsy /\ connTask'[b] = u
                 /\ onlineUsers[u] # NoEntry /\ a # b /\ sockets[a] = "open")
                => /\ sockets'[a] # "open"
                   /\ onlineUsers'[u] = Online(b)
                   /\ userSocketMap'[b] = u
                   /\ \E i, j, k \in 1..Len(out') :
                        /\ i < j /\ j < k
                        /\ out'[i].ev = "force_disconnect" /\ out'[i].to = Sock(a)
                        /\ out'[j].ev = "disconnect(true)" /\ out'[j].to = Sock(a)
                        /\ out'[k].ev = "onlineUsers.set" /\ out'[k].to = Sock(b)
                   /\ ~HasEv(out', "connection_established")
       /\ \A i \in 1..Len(out') :
            (out'[i].ev = "connection_established" /\ out' # out)
            => /\ connTask[out'[i].to.id] = out'[i].arg
               /\ connTask'[out'[i].to.id] = Falsy
      ]_vars

C1_Witness ==
    \E b \in Conns, u \in UserIds :
        /\ connTask[b] = u
        /\ onlineUsers[u] = Online(b)
        /\ \E a \in Conns \ {b} : /\ EvTo(out, "force_disconnect", Sock(a))
                                  /\ sockets[a] \in {"closing", "closed"}

\* C2 as stated: a send with both toUserId and groupId set, or with neither,
\* ends rejected with message_error and creates no Message row.
C2_Original ==
    (/\ send.pc = "done"
     /\ (send.d.toUserId # Falsy) = (send.d.groupId # Falsy))
    => /\ HasEv(send.log, "message_error")
       /\ ~HasEv(send.log, "message_sent")
       /\ \A m \in MsgIds : rows[m] = NoRow

\* C2 as amended: a send with neither toUserId nor groupId ends rejected with
\* message_error and creates no row; a send with both set is not rejected
\* for that: its row is a group row (groupId set, toUserId null) and its
\* new_message goes to the group room only.
C2_AtLeastOneTarget ==
    /\ (send.pc # "idle" /\ send.d.toUserId = Falsy /\ send.d.groupId = Falsy)
       => /\ send.pc = "done"
          /\ Len(send.log) = 1
          /\ send.log[1].ev = "message_error" /\ send.log[1].to = Sock(send.c)
          /\ \A m \in MsgIds : rows[m] = NoRow
          /\ nextId = 1
    /\ (send.d.toUserId # Falsy /\ send.d.groupId # Falsy)
       => /\ \A m \in MsgIds : rows[m] # NoRow =>
                 rows[m].toUserId = Falsy /\ rows[m].groupId = send.d.groupId
          /\ \A i \in 1..Len(send.log) : send.log[i].ev = "new_message" =>
                 send.log[i].to = RoomT(GroupRoom(send.d.groupId))

C2_Witness ==
    /\ send.pc = "done"
    /\ send.d.fromUserId # Falsy /\ send.d.messageType = "text" /\ send.d.messageText = <<"h", "i">>
    /\ send.d.toUserId = Falsy /\ send.d.groupId = Falsy
    /\ HasEv(send.log, "message_error")

\* text with files, type text with files, type doc without files, a type
\* outside {text, doc}, or a file without name or payload
BadCombination(d) ==
    \/ Trim(d.messageText) # <<>> /\ Len(d.files) > 0
    \/ d.messageType = "text" /\ Len(d.files) > 0
    \/ d.messageType = "doc" /\ Len(d.files) = 0
    \/ d.messageType \notin {"text", "doc"}
    \/ \E i \in 1..Len(d.files) : d.files[i].name = "" \/ d.files[i].base64 = EmptyString

\* C3: a send with such a combination is rejected with exactly one
\* message_error to the sender and nothing else happens: no row, nothing in
\* the blob store, no other event.
C3_RejectedNoSideEffects ==
    (send.pc # "idle" /\ BadCombination(send.d))
    => /\ send.pc = "done"
       /\ Len(send.log) = 1
       /\ send.log[1].ev = "message_error" /\ send.log[1].to = Sock(send.c)
       /\ out = send.log
       /\ \A m \in MsgIds : rows[m] = NoRow /\ blobs[m] = {}
       /\ nextId = 1

C3_Witness ==
    /\ send.pc = "done"
    /\ send.d.messageType = "doc" /\ send.d.fromUserId = 1 /\ send.d.toUserId = 11
    /\ Len(send.d.files) = 3 /\ send.d.files[2].name = ""
    /\ HasEv(send.log, "message_error")

\* a capacity limit is breached, or a blob write failed
CapacityBreached(d) ==
    \/ Len(d.files) > 10
    \/ \E i \in 1..Len(d.files) : BufferFrom(d.files[i].base64).len > 10 * 1024 * 1024
    \/ TotalSize(d.files) > 50 * 1024 * 1024

StoreFailed == send.id # 0 /\ (CapacityBreached(send.d) \/ send.err = "Failed to upload file")

\* C4 as stated: when a doc send that breached a limit or met a failed blob
\* write has terminated, none of its attachments is in the blob store, its
\* row does not exist, the sender got message_error and neither message_sent
\* nor new_message was emitted.
C4_Original ==
    (send.pc = "done" /\ StoreFailed)
    => /\ blobs[send.id] = {}
       /\ rows[send.id] = NoRow
       /\ EvTo(send.log, "message_error", Sock(send.c))
       /\ ~HasEv(send.log, "message_sent")
       /\ ~HasEv(send.log, "new_message")

Accepted == HasEv(send.log, "message_sent")

WithinLimits(d) ==
    /\ Len(d.files) <= 10
    /\ \A i \in 1..Len(d.files) : BufferFrom(d.files[i].base64).len <= 10 * 1024 * 1024
    /\ TotalSize(d.files) <= 50 * 1024 * 1024

\* C5: a doc send that passed validation ends accepted exactly if it has at
\* most 10 files, each of at most 10 MiB decoded, of at most 50 MiB in total;
\* otherwise it ends rejected with message_error.
C5_AcceptedIffWithinLimits ==
    /\ Accepted => WithinLimits(send.d)
    /\ (send.pc = "done" /\ send.d.messageType = "doc" /\ Validate(send.d) = "")
       => /\ Accepted <=> WithinLimits(send.d)
          /\ ~Accepted => HasEv(send.log, "message_error")

C5_Witness ==
    /\ send.pc = "done"
    /\ Accepted
    /\ TotalSize(send.d.files) = 50 * 1024 * 1024
    /\ \E i \in 1..Len(send.d.files) : BufferFrom(send.d.files[i].base64).len = 10 * 1024 * 1024

\* the files of the message_sent event
SentFiles == LET i == CHOOSE i \in 1..Len(send.log) : send.log[i].ev = "message_sent"
             IN  send.log[i].arg.files

Contents == {BufferFrom(send.d.files[i].base64) : i \in 1..Len(send.d.files)}
               \cup {BufferFrom(f.base64) : f \in SentFiles}

\* C6 as stated: for an accepted doc send of the room-aware controller, the
\* attachments in message_sent carry, content by content, as many copies of
\* the bytes as were submitted.
C6_Original ==
    (impl = "rooms" /\ Accepted /\ send.d.messageType = "doc")
    => \A b \in Contents :
          Cardinality({f \in SentFiles : BufferFrom(f.base64) = b})
            = Cardinality({i \in 1..Len(send.d.files) : BufferFrom(send.d.files[i].base64) = b})

\* C7 as stated: the files list of every message_sent of a doc message holds
\* as many attachments as were submitted, which is fileCount.
C7_Original ==
    (Accepted /\ send.d.messageType = "doc")
    => LET i == CHOOSE i \in 1..Len(send.log) : send.log[i].ev = "message_sent"
       IN  /\ Cardinality(send.log[i].arg.files) = Len(send.d.files)
           /\ send.log[i].arg.fileCount = Len(send.d.files)

\* the request names a stored message of another sender
NotOwner(t) ==
    /\ t.d.messageId \in MsgIds
    /\ rows[t.d.messageId] # NoRow
    /\ rows[t.d.messageId].fromUserId # t.d.fromUserId

\* C8: an edit or delete whose fromUserId is not the stored sender ends, once
\* the row was looked up, with exactly one edit_message_error or
\* delete_message_error to the caller; rows and attachment directories stay
\* as they are and no message_edited or message_deleted is emitted.
C8_NotOwnerRejected ==
    [][(ops[1].pc = "find" /\ NotOwner(ops[1]))
       => /\ ops'[1].pc = "done"
          /\ Len(ops'[1].log) = 1
          /\ ops'[1].log[1].ev = (IF ops[1].kind = "edit" THEN "edit_message_error"
                                  ELSE "delete_message_error")
          /\ ops'[1].log[1].to = Sock(ops[1].c)
          /\ out' = ops'[1].log
          /\ rows' = rows
          /\ blobs' = blobs
      ]_vars

C8_Witness ==
    /\ ops[1].pc = "done"
    /\ ops[1].kind = "delete"
    /\ ops[1].d.messageId = 2 /\ ops[1].d.fromUserId = 11
    /\ NotOwner(ops[1])
    /\ blobs[2] # {}
    /\ ops[1].log[1].arg = "Unauthorized to delete this message."

EditOfDoc ==
    /\ ops[1].pc = "done"
    /\ ops[1].kind = "edit"
    /\ ops[1].d.messageId \in MsgIds
    /\ rows[ops[1].d.messageId].messageType = "doc"

\* C9 as stated: an edit with non-empty text of a stored doc message is
\* rejected with "Only text messages can be edited" whatever fromUserId is.
C9_Original ==
    (EditOfDoc /\ Trim(ops[1].d.messageText) # <<>>)
    => /\ Len(ops[1].log) = 1
       /\ ops[1].log[1].ev = "edit_message_error"
       /\ ops[1].log[1].arg \in {"Only text messages can be edited", "store failure"}

\* C9 as amended: an edit of a stored doc message is always rejected with
\* one edit_message_error and changes nothing; when the text is non-empty
\* and the lookup succeeds the error is "Only text messages can be edited"
\* for the message's sender and "Unauthorized to edit this message" for
\* every other fromUserId.
C9_OwnerSeesTypeError ==
    EditOfDoc
    => LET t == ops[1]
           owner == rows[t.d.messageId].fromUserId
       IN  /\ Len(t.log) = 1
           /\ t.log[1].ev = "edit_message_error" /\ t.log[1].to = Sock(t.c)
           /\ t.log[1].arg \in
                (IF Trim(t.d.messageText) = <<>> THEN {"Message text cannot be empty"}
                 ELSE IF t.d.fromUserId = owner
                 THEN {"Only text messages can be edited", "store failure"}
                 ELSE {"Unauthorized to edit this message", "store failure"})
           /\ rows[t.d.messageId] = DocRow
           /\ blobs[t.d.messageId] = DocDir

C9_Witness ==
    /\ EditOfDoc
    /\ ops[1].d.fromUserId = 11
    /\ ops[1].log[1].arg = "Unauthorized to edit this message"

\* C10: when the disconnect of a connection that the reverse index maps to
\* user U is processed, no typing key of U remains, and the keys of every
\* other fromUserId, those addressed to U included, are as before.
C10_TypingPurged ==
    [][\A c \in Conns, u \in UserIds :
          (sockets[c] # "closed" /\ sockets'[c] = "closed" /\ userSocketMap[c] = u)
          => /\ \A t \in UserIds : TypingKey(u, t) \notin typingUsers'
             /\ \A f \in UserIds \ {u}, t \in UserIds :
                   (TypingKey(f, t) \in typingUsers') = (TypingKey(f, t) \in typingUsers)
      ]_vars

C10_Witness ==
    /\ \E c \in Conns : sockets[c] = "closed"
    /\ Len(out) > 0
    /\ out[1].ev = "user_status_changed"
    /\ out[1].arg = [userId |-> 1, status |-> "offline"]
    /\ typingUsers = {TypingKey(11, 1)}

\* C11 as stated, in the states where every connection that was ever opened
\* has had its disconnect processed: no typing entry is left, because an
\* entry does not outlive the connection that sent its typing_start.
C11_Original ==
    (\A c \in Conns : sockets[c] \in {"new", "closed"}) => typingUsers = {}

CountEv(log, name) == Cardinality({i \in 1..Len(log) : log[i].ev = name})

DirectSend == Accepted /\ send.pc = "done" /\ send.d.toUserId # Falsy /\ send.d.groupId = Falsy

\* C12 as stated: an accepted direct send emits exactly one new_message, to
\* the connection the registry binds the recipient to, with message_delivered
\* recipientOnline = true to the sender, when the recipient is registered;
\* otherwise new_message goes to room user_<toUserId> with recipientOnline =
\* false; no message_error either way.
C12_Original ==
    DirectSend
    => LET recipient == onlineUsers[send.d.toUserId]
           target == IF recipient # NoEntry THEN Sock(recipient.socketId)
                     ELSE RoomT(UserRoom(send.d.toUserId))
       IN  /\ CountEv(send.log, "new_message") = 1
           /\ EvTo(send.log, "new_message", target)
           /\ \E i \in 1..Len(send.log) :
                 /\ send.log[i].ev = "message_delivered"
                 /\ send.log[i].to = Sock(send.c)
                 /\ send.log[i].arg.recipientOnline = (recipient # NoEntry)
           /\ ~HasEv(send.log, "message_error")

GroupSend == Accepted /\ send.pc = "done" /\ send.d.groupId # Falsy

\* C13 as stated: an accepted group send emits new_message to room
\* group_<groupId> and nowhere else, and chat_list_update to the connection
\* of every registered user whose session is a member of the group.
C13_Original ==
    GroupSend
    => LET room == GroupRoom(send.d.groupId)
       IN  /\ EvTo(send.log, "new_message", RoomT(room))
           /\ \A i \in 1..Len(send.log) :
                 send.log[i].ev = "new_message" => send.log[i].to = RoomT(room)
           /\ \A u \in UserIds :
                 (onlineUsers[u] # NoEntry /\ room \in userRooms[u])
                 => EvTo(send.log, "chat_list_update", Sock(onlineUsers[u].socketId))

\* C15 as stated: a stored text message has non-blank text and a stored doc
\* message has none.
C15_Original ==
    \A m \in MsgIds :
        rows[m] # NoRow
        => /\ rows[m].messageType = "text" => Trim(rows[m].messageText) # <<>>
           /\ rows[m].messageType = "doc" => rows[m].messageText = <<>>

\* C17: a heartbeat for a userId that is not registered changes nothing and
\* emits nothing; for a registered userId it rewrites that entry with the
\* same connection binding, emits heartbeat_ack to the caller only, and
\* leaves every other entry, the typing map, the reverse index and the rooms
\* as they are.
C17_HeartbeatFrame ==
    [][\A c \in Conns, u \in UserIds \cup {Falsy} :
          Heartbeat(c, u)
          => /\ UNCHANGED <<sockets, joined, typingUsers, userSocketMap, userRooms, connTask>>
             /\ \A v \in UserIds : onlineUsers'[v].socketId = onlineUsers[v].socketId
             /\ \A v \in UserIds \ {u} : onlineUsers'[v] = onlineUsers[v]
             /\ IF u = Falsy \/ onlineUsers[u] = NoEntry
                THEN out' = <<>> /\ onlineUsers' = onlineUsers
                ELSE /\ onlineUsers'[u].status = "online"
                     /\ CountEv(out', "heartbeat_ack") = 1
                     /\ \A i \in 1..Len(out') :
                           /\ out'[i].to.kind = "sock"
                           /\ out'[i].ev = "heartbeat_ack" => out'[i].to = Sock(c)
                           /\ out'[i].ev \in {"heartbeat_ack", "onlineUsers.set"}
      ]_vars

C17_Witness ==
    /\ Len(out) = 2
    /\ out[2].ev = "heartbeat_ack"
    /\ out[2].to = Sock(2)
    /\ onlineUsers[1] = Online(1)
    /\ typingUsers # {}
    /\ userRooms[1] # {}

\* C14: every stored row has exactly one of toUserId and groupId set, a send
\* that names both is stored as a group row, and no step changes either
\* field of a row that stays.
C14_ExactlyOneTarget ==
    /\ [](\A m \in MsgIds :
            rows[m] # NoRow
            => /\ (rows[m].toUserId # Falsy) # (rows[m].groupId # Falsy)
               /\ (m = send.id /\ send.d.groupId # Falsy)
                  => rows[m].groupId = send.d.groupId /\ rows[m].toUserId = Falsy)
    /\ [][\A m \in MsgIds :
            (rows[m] # NoRow /\ rows'[m] # NoRow)
            => /\ rows'[m].toUserId = rows[m].toUserId
               /\ rows'[m].groupId = rows[m].groupId
               /\ rows'[m].fromUserId = rows[m].fromUserId]_vars

C14_Witness ==
    /\ send.d.toUserId # Falsy /\ send.d.groupId # Falsy
    /\ rows[1].groupId = 5 /\ rows[1].toUserId = Falsy
    /\ ops[1].kind = "edit"
    /\ HasEv(ops[1].log, "message_edited")
    /\ rows[1].messageText = <<"h", "i">>

ErrorEvents == {"message_error", "edit_message_error", "delete_message_error", "connection_error"}

\* C18: an error event goes to one connection, the one whose request the
\* step was serving, and a message_error carries the tempId of that request.
C18_ErrorsToCaller ==
    [][\A i \in 1..Len(out') :
          /\ out'[i].ev = "message_error"
             => /\ send' # send
                /\ out'[i].to = Sock(send'.c)
                /\ out'[i].arg.tempId = send'.d.tempId
                /\ send'.d.tempId \in TempIds
          /\ out'[i].ev \in {"edit_message_error", "delete_message_error"}
             => /\ ops' # ops
                /\ out'[i].to = Sock(ops'[1].c)
                /\ (out'[i].ev = "edit_message_error") = (ops'[1].kind = "edit")
          /\ out'[i].ev = "connection_error"
             => \E c \in Conns : out'[i].to = Sock(c) /\ ConnectSync(c, Falsy)
      ]_vars

C18_Witness ==
    /\ send.pc = "done"
    /\ send.c = 2
    /\ send.id # 0
    /\ out = <<MessageError(send, "Failed to upload file")>>
    /\ onlineUsers[11] = NoEntry

LookupFailed(log) == HasEv(log, "console.warn")

NoError(log) == \A i \in 1..Len(log) : log[i].ev \notin ErrorEvents

\* C20: a step in which the group-member lookup failed ends its operation
\* as a success: a registration emits connection_established and stays
\* registered, a send has emitted message_sent and keeps its row, an edit or
\* delete has emitted message_edited or message_deleted and keeps its change;
\* none of them emits an error event.
C20_LookupFailureTolerated ==
    [][LookupFailed(out')
       => /\ NoError(out')
          /\ \A c \in Conns :
                (connTask[c] # Falsy /\ connTask'[c] = Falsy)
                => /\ EvTo(out', "connection_established", Sock(c))
                   /\ UNCHANGED <<onlineUsers, userSocketMap>>
          /\ send' # send
             => /\ send'.pc = "done"
                /\ EvTo(send'.log, "message_sent", Sock(send.c))
                /\ NoError(send'.log)
                /\ rows'[send.id] = NewRow(send.d)
          /\ ops' # ops
             => LET t == ops'[1]
                    mid == t.d.messageId
                IN  /\ t.pc = "done"
                    /\ NoError(t.log)
                    /\ rows' = rows
                    /\ IF t.kind = "edit"
                       THEN /\ EvTo(t.log, "message_edited", Sock(t.c))
                            /\ rows'[mid].messageText = Trim(t.d.messageText)
                       ELSE /\ EvTo(t.log, "message_deleted", Sock(t.c))
                            /\ rows'[mid] = NoRow
      ]_vars

C20_Witness ==
    /\ LookupFailed(send.log)
    /\ LookupFailed(ops[1].log)
    /\ ops[1].kind = "delete"
    /\ onlineUsers[11] = Online(2)
    /\ userRooms[11] = {}

\* C16 as stated: a send that has ended has emitted to its connection
\* exactly one of message_sent and message_error, once.
C16_Original ==
    send.pc = "done"
    => CountEv(send.log, "message_sent") + CountEv(send.log, "message_error") = 1

\* C19 as stated: no failure of a collaborator escapes the handler that
\* called it.
C19_Original == send.addDirs # "unhandledRejection"


(***************************************************************************)
(* Chat-list hints, edit and delete fan-out, explicit eviction, rooms.     *)
(***************************************************************************)
\* the entries of userIds that the registry binds to connection c
BoundEntries(userIds, c) ==
    {k \in 1..Len(userIds) :
        /\ userIds[k] \in UserIds
        /\ onlineUsers[userIds[k]] # NoEntry
        /\ onlineUsers[userIds[k]].socketId = c}

EventsTo(log, name, target) == {i \in 1..Len(log) : log[i].ev = name /\ log[i].to = target}

C22_RemovalNotFatal ==
    [][\A id \in OpIds :
         LET t == ops[id]
             t2 == ops'[id]
             mid == t.d.messageId
         IN  (t.kind = "delete" /\ t.pc \in {"list", "rmdir", "destroy"} /\ t2 # t) =>
               /\ t.pc = "list" => t2.pc \in {"rmdir", "destroy"}
               /\ t.pc = "rmdir" => t2.pc = "destroy"
               /\ t.pc \in {"list", "rmdir"} =>
                     /\ t2.log = t.log
                     /\ rows' = rows
                     /\ rows[mid] # NoRow
               /\ blobs' # blobs => t.pc = "rmdir"
               /\ DeleteDestroy(id, TRUE) =>
                     /\ rows'[mid] = NoRow
                     /\ EventsTo(Emitted(t, t2), "message_deleted", Sock(t.c)) # {}]_vars

\* the directory of message 2 could not be removed; the row is gone and the
\* sender has message_deleted
C22_Witness ==
    /\ ops[1].kind = "delete"
    /\ ops[1].d.messageId = 2
    /\ rows[2] = NoRow
    /\ blobs[2] # {}
    /\ EventsTo(ops[1].log, "message_deleted", Sock(ops[1].c)) # {}


\* C23: a completed edit or delete reaches the other side as a send does: a
\* group message's event goes to room group_<groupId>; a direct message's
\* event goes to the recipient's connection when the registry has the
\* recipient, and to room user_<toUserId> when it has not.
C23_Original ==
    \A id \in OpIds :
      LET t == ops[id]
          name == IF t.kind = "edit" THEN "message_edited" ELSE "message_deleted"
      IN  (t.pc = "done" /\ HasEv(t.log, name)) =>
            IF t.d.groupId # Falsy
            THEN EventsTo(t.log, name, RoomT(GroupRoom(t.d.groupId))) # {}
            ELSE t.d.toUserId \in UserIds =>
                   IF onlineUsers[t.d.toUserId] # NoEntry
                   THEN EventsTo(t.log, name, Sock(onlineUsers[t.d.toUserId].socketId)) # {}
                   ELSE EventsTo(t.log, name, RoomT(UserRoom(t.d.toUserId))) # {}


\* C24: disconnect_other_sessions{userId} never terminates the connection that
\* sent it, and when the sender is not the connection the registry binds to
\* userId, the holder gets no force_disconnect and is not terminated.
C24_Original ==
    [][\A c \in Conns, u \in UserIds :
         DisconnectOtherSessions(c, u) =>
           /\ sockets'[c] = sockets[c]
           /\ (onlineUsers[u] = NoEntry \/ onlineUsers[u].socketId # c) =>
                 /\ ~HasEv(out', "force_disconnect")
                 /\ sockets' = sockets]_vars


\* C25: when handleUserConnection for U completes on connection C, C is in
\* user_<U> and in group_<g> for exactly the groups the resolver returned for
\* this connect, and the tracked rooms of U are exactly those group rooms; when
\* the disconnect of the connection bound to U has been processed, U has no
\* tracked room.
C25_Original ==
    /\ [][\A c \in Conns, res \in GroupLookupResults :
            (ConnectResume(c, res) /\ sockets[c] = "open") =>
              LET U == connTask[c]
                  rooms == {GroupRoom(g) : g \in res.groups}
              IN  /\ joined'[c] = {UserRoom(U)} \cup rooms
                  /\ userRooms'[U] = rooms]_vars
    /\ []((\A c \in Conns : sockets[c] \in {"new", "closed"} /\ connTask[c] = Falsy)
            => \A u \in UserIds : userRooms[u] = {})


(***************************************************************************)
(* Group services.                                                         *)
(***************************************************************************)
Returned(op) == svc.op = op /\ svc.pc = "done"

NameInUse(gs, name) == \E g \in GroupRowIds : gs[g] # NoGroup /\ gs[g].name = name

\* C27: a createGroup that returns status error has left no group row and no
\* membership row behind, whichever step failed; one that returns success has
\* left the group and a membership of the creator and of every listed user.
C27_Original ==
    Returned("createGroup") =>
      IF svc.status = "error"
      THEN groups = svc.before.groups /\ members = svc.before.members
      ELSE /\ groups[svc.groupId].name = svc.args.name
           /\ members[<<svc.groupId, svc.args.createdBy>>] > 0
           /\ \A k \in 1..Len(svc.args.groupUsers) :
                members[<<svc.groupId, svc.args.groupUsers[k]>>] > 0

\* C29: a createGroup call that names a creator and a name no group has, and
\* whose store calls all succeed, returns success; it has then added one group
\* with that name and, for that group only, one membership row for the creator
\* and one per entry of groupUsers.  A call with an empty name, or with a name
\* some group has, returns status error and writes nothing.
C29_CreateGroup ==
    Returned("createGroup") =>
      LET a == svc.args
          b == svc.before
          g == svc.groupId
      IN  IF a.name = "" \/ NameInUse(b.groups, a.name)
          THEN /\ svc.status = "error"
               /\ svc.inserts = 0
               /\ groups = b.groups
               /\ members = b.members
          ELSE /\ (a.createdBy # Falsy /\ ~svc.failed) => svc.status = "success"
               /\ svc.status = "success" =>
                    /\ b.groups[g] = NoGroup
                    /\ groups = [b.groups EXCEPT ![g] = [name |-> a.name, createdBy |-> a.createdBy]]
                    /\ svc.inserts = 1 + Len(a.groupUsers)
                    /\ \A k \in GroupRowIds \X UserIds :
                         members[k] = b.members[k]
                           + (IF k[1] = g
                              THEN Occurrences(a.groupUsers, k[2])
                                     + (IF k[2] = a.createdBy THEN 1 ELSE 0)
                              ELSE 0)

\* a second group was created with two listed users
C29_Witness ==
    /\ Returned("createGroup")
    /\ svc.status = "success"
    /\ svc.groupId = 2
    /\ Len(svc.args.groupUsers) = 2
    /\ svc.inserts = 3

Incomplete(columns) ==
    \/ \E col \in Range(requiredColumns) : columns[col] = "none"
    \/ columns["id"] = "empty"

\* C28: Service.init with a complete dbconfig and a userModel that has a name
\* and a columns map in which a required column (id, username, email) is
\* missing or id has an empty column list rejects with a message that contains
\* "UserModel Missing column".
C28_Original ==
    (/\ Returned("init")
     /\ ~svc.failed
     /\ \A f \in Range(requiredDbFields) : svc.args.dbconfig[f]
     /\ svc.args.userModel.name # ""
     /\ svc.args.userModel.has = "given"
     /\ Incomplete(svc.args.userModel.columns))
      => /\ svc.status = "rejected"
         /\ svc.message.text = "UserModel Missing column: '<col>'"


(***************************************************************************)
(* File manager                                                            *)
(***************************************************************************)
\* the path is the upload root or below it
InsideRoot(segs) ==
    /\ Len(segs) >= Len(fileLocation)
    /\ SubSeq(segs, 1, Len(fileLocation)) = fileLocation

\* C26: whatever paths addDirs and addFiles are given, every directory and
\* file they create is the upload root or a descendant of it.
C26_Original == \A created \in disk : InsideRoot(created)


(***************************************************************************)
(* Order of a send.                                                        *)
(***************************************************************************)
\* positions of the events called name in a log
Positions(log, name) == {i \in 1..Len(log) : log[i].ev = name}

\* every position of a comes before every position of b
Before(log, a, b) == \A i \in Positions(log, a), j \in Positions(log, b) : i < j

\* the attachments of the send in flight that the blob store holds
Written(t) == {i \in 1..Len(t.uploaded) : \E f \in blobs[t.id] : f.name = t.uploaded[i]}

\* C31: the Message row is created before anything is emitted or written; an
\* attachment is written only while the row exists and message_sent is not
\* out; message_sent is emitted by the step that follows the creation (no
\* files) or the read-back (files), with every attachment written; then come
\* new_message / message_delivered, then recent_chats_messages, which ends
\* the log of an accepted send, occurs once in it, and never occurs in the log
\* of a rejected send.
C31_SendOrder ==
    /\ [](LET log == send.log
          IN  /\ HasEv(log, "message_sent") =>
                    /\ Cardinality(Positions(log, "message_sent")) = 1
                    /\ rows[send.id] # NoRow
                    /\ Len(send.uploaded) = Len(send.d.files)
                    /\ Written(send) = 1..Len(send.d.files)
                    /\ Before(log, "message_sent", "new_message")
                    /\ Before(log, "message_sent", "message_delivered")
                    /\ Before(log, "new_message", "recent_chats_messages")
                    /\ Before(log, "message_delivered", "recent_chats_messages")
                    /\ Positions(log, "new_message") # {}
                    /\ send.pc = "done" =>
                          /\ Positions(log, "recent_chats_messages") = {Len(log)}
                          /\ log[Len(log)].to = AllT
              /\ ~HasEv(log, "message_sent") => ~HasEv(log, "recent_chats_messages"))
    /\ [][/\ (\E m \in MsgIds : rows[m] = NoRow /\ rows'[m] # NoRow) =>
                /\ send.pc = "create" /\ send.log = <<>>
                /\ blobs[nextId] = {} /\ rows'[nextId] # NoRow /\ send'.id = nextId
          /\ (\E m \in MsgIds : ~(blobs'[m] \subseteq blobs[m])) =>
                /\ rows[send.id] # NoRow
                /\ ~HasEv(send'.log, "message_sent")
          /\ HasEv(out', "message_sent") =>
                send.pc = IF Len(send.d.files) > 0 THEN "read" ELSE "create"]_vars

\* a send with two attachments has been acknowledged, delivered and hinted
C31_Witness ==
    /\ send.pc = "done"
    /\ Len(send.d.files) = 2
    /\ Written(send) = {1, 2}
    /\ HasEv(send.log, "message_sent")
    /\ HasEv(send.log, "new_message")
    /\ send.log[Len(send.log)].ev = "recent_chats_messages"


\* C32: a send that passed validation goes on whatever happens to the
\* sender's connection: its next step can always be taken; a request within
\* the limits ends with its row stored, every attachment stored, no
\* message_error, and recent_chats_messages sent; the step that emits
\* new_message addresses it to the group room, or to the connection the
\* registry binds the recipient to, or else to room user_<toUserId>, and the
\* registered recipient of a direct message gets its chat_list_update.
C32_NoAbortOnDisconnect ==
    /\ [](send.pc \notin {"idle", "done"} => ENABLED SendProgress)
    /\ []((send.pc = "done" /\ Validate(send.d) = "" /\ WithinLimits(send.d)) =>
            /\ rows[send.id] # NoRow
            /\ Written(send) = 1..Len(send.d.files)
            /\ ~HasEv(send.log, "message_error")
            /\ HasEv(send.log, "new_message")
            /\ EvTo(send.log, "recent_chats_messages", AllT))
    /\ [][HasEv(out', "new_message") =>
            LET d == send.d
                recipient == IF d.toUserId \in UserIds THEN onlineUsers[d.toUserId] ELSE NoEntry
            IN  /\ Cardinality(Positions(out', "new_message")) = 1
                /\ IF d.groupId # Falsy
                   THEN EvTo(out', "new_message", RoomT(GroupRoom(d.groupId)))
                   ELSE IF recipient # NoEntry
                   THEN /\ EvTo(out', "new_message", Sock(recipient.socketId))
                        /\ EvTo(out', "chat_list_update", Sock(recipient.socketId))
                   ELSE EvTo(out', "new_message", RoomT(UserRoom(d.toUserId)))]_vars

\* the sender left while its two attachments were being stored; the registered
\* recipient got the message, the sender's connection got no hint
C32_Witness ==
    /\ send.pc = "done"
    /\ sockets[send.c] = "closed"
    /\ Len(send.d.files) = 2
    /\ Written(send) = {1, 2}
    /\ rows[send.id] # NoRow
    /\ EvTo(send.log, "new_message", Sock(2))
    /\ EvTo(send.log, "chat_list_update", Sock(2))
    /\ ~EvTo(send.log, "chat_list_update", Sock(send.c))


\* the connections an emit to a target reaches
Receivers(target) ==
    CASE target.kind = "sock" -> {c \in Conns : c = target.id /\ sockets[c] = "open"}
      [] target.kind = "room" ->
           {c \in Conns : sockets[c] = "open" /\ [rk |-> target.rk, id |-> target.id] \in joined[c]}
      [] target.kind = "all" -> {c \in Conns : sockets[c] = "open"}
      [] OTHER -> {}

\* C33: join_group{userId, groupId} puts the connection among the receivers of
\* room group_<groupId> and leave_group{userId, groupId} takes it out; between
\* requests the connection enters the room only by a join_group of its own or
\* by the completion of a handleUserConnection of its own that found the
\* group, and leaves it only by a leave_group of its own or by its
\* disconnect; a request without userId or groupId changes no membership.
C33_JoinLeave ==
    [][/\ \A c \in RoomConns, u \in UserIds \cup {Falsy}, g \in GroupIds \cup {Falsy} :
            /\ JoinGroup(c, u, g) =>
                  IF u = Falsy \/ g = Falsy
                  THEN joined' = joined /\ userRooms' = userRooms
                  ELSE /\ c \in Receivers(RoomT(GroupRoom(g)))'
                       /\ EvTo(out', "group_member_joined", RoomT(GroupRoom(g)))
            /\ LeaveGroup(c, u, g) =>
                  IF u = Falsy \/ g = Falsy
                  THEN joined' = joined /\ userRooms' = userRooms
                  ELSE c \notin Receivers(RoomT(GroupRoom(g)))'
       /\ \A c \in Conns, g \in GroupIds :
            LET room == RoomT(GroupRoom(g))
            IN  /\ (c \notin Receivers(room) /\ c \in Receivers(room)') =>
                      \/ \E u \in UserIds : JoinGroup(c, u, g)
                      \/ \E res \in GroupLookupResults : g \in res.groups /\ ConnectResume(c, res)
                /\ (c \in Receivers(room) /\ c \notin Receivers(room)') =>
                      \/ \E u \in UserIds : LeaveGroup(c, u, g)
                      \/ sockets'[c] # "open"]_vars

\* connection 1 joined group 5 on request, got the joined notice, left again
\* and is out of the room while still registered as user 1
C33_Witness ==
    /\ sockets[1] = "open"
    /\ onlineUsers[1] = Online(1)
    /\ connTask[1] = Falsy
    /\ EvTo(out, "leave", RoomT(GroupRoom(5)))
    /\ 1 \notin Receivers(RoomT(GroupRoom(5)))
    /\ 2 \in Receivers(RoomT(GroupRoom(5)))


Quiescent == \A c \in Conns : connTask[c] = Falsy /\ sockets[c] # "closing"

\* C35: when no handler is mid-execution, userSocketMap maps connection s to
\* user u exactly when the presence entry of u is bound to s, and no presence
\* entry is bound to a connection whose disconnect has been processed.
C35_Original ==
    Quiescent =>
      /\ \A s \in Conns, u \in UserIds :
            userSocketMap[s] = u <=> (onlineUsers[u] # NoEntry /\ onlineUsers[u].socketId = s)
      /\ \A u \in UserIds :
            onlineUsers[u] # NoEntry => sockets[onlineUsers[u].socketId] # "closed"


\* the log holds an event called name about message m
About(log, name, m) == \E i \in 1..Len(log) : log[i].ev = name /\ log[i].arg.id = m

\* C36: once a handler has emitted message_deleted for M, no handler emits
\* message_edited for M; and when an edit and a delete of M have both
\* finished and the delete went through, M's row does not exist.
C36_Original ==
    /\ [][\A m \in MsgIds, e \in OpIds :
            ((\E d \in OpIds : About(ops[d].log, "message_deleted", m)) /\ ops'[e] # ops[e])
            => ~About(Emitted(ops[e], ops'[e]), "message_edited", m)]_vars
    /\ [](\A m \in MsgIds :
            (/\ \A id \in OpIds : ops[id].pc = "done" /\ ops[id].d.messageId = m
             /\ \E d \in OpIds : About(ops[d].log, "message_deleted", m))
            => rows[m] = NoRow)


\* where a notice about a stored message may go: the requester, the group
\* room of the row, the connection or the personal room of the row's recipient
StoredTargets(t) ==
    {Sock(t.c)}
      \cup (IF t.message.groupId # Falsy THEN {RoomT(GroupRoom(t.message.groupId))} ELSE {})
      \cup (IF t.message.toUserId \in UserIds
            THEN {RoomT(UserRoom(t.message.toUserId))}
                   \cup {Sock(c) : c \in {x \in Conns : onlineUsers[t.message.toUserId] = Online(x)}}
            ELSE {})

\* C37: every message_edited and message_deleted of a request goes to the
\* requesting connection or to the recipient or group stored in the row, and
\* every chat_list_update of the request names the group of the row or a
\* participant of the row, whatever toUserId and groupId the request carries.
C37_Original ==
    \A id \in OpIds :
      LET t == ops[id]
      IN  \A i \in 1..Len(t.log) :
            /\ t.log[i].ev \in {"message_edited", "message_deleted"} =>
                  t.log[i].to \in StoredTargets(t)
            /\ t.log[i].ev = "chat_list_update" =>
                  IF t.log[i].arg.type = "group"
                  THEN t.log[i].arg.id = t.message.groupId
                  ELSE t.log[i].arg.id \in {t.message.fromUserId, t.message.toUserId}


\* C38: when a handleDeleteMessage has ended with delete_message_error, every
\* stored message still has its row and all of its attachments, as before the
\* request.
C38_Original ==
    \A id \in OpIds :
      LET t == ops[id]
      IN  (t.kind = "delete" /\ t.pc = "done" /\ HasEv(t.log, "delete_message_error")) =>
            /\ rows[1] = TextRow
            /\ rows[2] = DocRow
            /\ blobs[2] = DocDir


\* C39: the step that completes a handleUserConnection of U broadcasts the
\* online status and sends connection_established only when the registry
\* holds U, and a user the registry does not hold gets no new room record.
C39_Original ==
    [][\A c \in Conns :
         LET U == connTask[c]
         IN  (U # Falsy /\ connTask'[c] = Falsy) =>
               /\ (\E i \in 1..Len(out') :
                      \/ /\ out'[i].ev = "user_status_changed"
                         /\ out'[i].arg = [userId |-> U, status |-> "online"]
                      \/ /\ out'[i].ev = "connection_established"
                         /\ out'[i].arg = U)
                  => onlineUsers'[U] # NoEntry
               /\ onlineUsers'[U] = NoEntry => userRooms'[U] \subseteq userRooms[U]]_vars


\* C40: a step of an edit or delete request changes the row or the
\* attachments of a message only when the registry binds the message's sender
\* to the requesting connection; a request from any other connection ends
\* with an error.
C40_Original ==
    /\ [][\A id \in OpIds, m \in MsgIds :
            (ops'[id] # ops[id] /\ (rows'[m] # rows[m] \/ blobs'[m] # blobs[m]))
            => onlineUsers[rows[m].fromUserId] = Online(ops[id].c)]_vars
    /\ [](\A id \in OpIds :
            LET t == ops[id]
                M == FindByPk(t.d.messageId)
            IN  (t.pc = "done" /\ M # NoRow /\ onlineUsers[M.fromUserId] # Online(t.c))
                => HasEv(t.log, IF t.kind = "edit" THEN "edit_message_error"
                                ELSE "delete_message_error"))

=============================================================================
